---- MODULE Spec2Model ----
(***************************************************************************)
(* Ingestion and hybrid search of inkwire-vector-cms-backend.              *)
(*                                                                         *)
(* The datastore is two tables: resources (one row per document, with the  *)
(* processingStatus key of its metadata and its text_content) and chunks   *)
(* (the stored passages).  Every `await` of a handler on the datastore,    *)
(* the embedding generator or a timer is one step: the call takes effect   *)
(* and the handler runs on to its next await.  Requests are served         *)
(* concurrently, so steps of different handlers and background runs        *)
(* interleave freely.  Requests and runs that are in flight are kept in    *)
(* bags: two of them in the same state are interchangeable.                *)
(***************************************************************************)
EXTENDS Integers, Sequences, FiniteSets, Bags, TLC

\* ------------------------------------------------------------------ bounds
\* processChunks and processAllPending requests served in one behaviour
MaxTriggers == 2
\* passages chunkText yields for one run under Spec
LifeChunks == 1
\* passages chunkText yields for the run of SpecRun
MaxChunks == 4
\* fields of one keyword row that contain the query, under SpecMerge
MaxFields == 2
\* characters of one passage preview, under SpecDedup
MaxPreview == 2
\* search requests served in one behaviour of SpecQuery
MaxSearches == 2
\* pieces the text given to chunkText is put together from, under SpecChunk
MaxPieces == 5
\* passages of the run followed under SpecInsert: one more than an insert batch
InsertChunks == 11

\* ------------------------------------------------------- program constants
\* chunkEmbed.ts: const batchSize = 3
batchSize == 3
\* chunkEmbed.ts: const retryCount = 3
retryCount == 3
\* chunkEmbed.ts: const insertBatchSize = 10
insertBatchSize == 10

VARIABLES
    nReqs,        \* processChunks and processAllPending requests served so far
    nDocs,        \* rows ever inserted into resources (ids 1..nDocs)
    status,       \* status[d]: metadata.processingStatus of resource d
    text,         \* text[d]: text_content of resource d
    raw,          \* raw[d]: what metadata.rawData of resource d extracts to
    chunks,       \* bag of the rows of the chunks table
    reqs,         \* bag of the trigger requests between their SELECT and their answer
    runs,         \* bag of the ingestion runs with a call outstanding
    answered,     \* the answer the step just taken gave straight from its SELECT
    ended,        \* the ingestion run the step just taken ended, and the status it left
    completedN,   \* completedN[d]: passages of the run that last set d completed
    overlapped,   \* overlapped[d]: two status writers of d have been in flight together
    keywordResults, \* keywordResults[k]: the row keywordSearch returned for key k
    vectorResults,  \* vectorResults[k]: the row vectorSearch returned for key k
    resultMap,      \* resultMap[k]: the merged row of key k
    searched,       \* searchAllResourcesGrouped has merged the two result lists
    chunkRows,      \* chunkRows[k]: the chunks row of key k, as both retrievers read it
    resourceRows,   \* resourceRows[r]: the resources row of document r, likewise
    documents,      \* the groups searchAllResourcesGrouped returns, in order
    search,         \* the search request being served, with its outstanding call
    response,       \* the response to the search request served last
    nSearches,      \* search requests received so far
    args,           \* the arguments of the function called (chunkText, or the
                    \* row mapper of keywordSearch), when one is followed alone
    returned        \* what the call returned

queryVars == <<search, response, nSearches>>

callVars == <<args, returned>>

searchVars == <<keywordResults, vectorResults, resultMap, searched,
                chunkRows, resourceRows, documents, queryVars, callVars>>

vars == <<nReqs, nDocs, status, text, raw, chunks, reqs, runs,
          answered, ended, completedN, overlapped, searchVars>>

\* One document is followed through the requests that touch it: no statement
\* of the handlers reads or writes the row or the passages of another document
\* than the one it names.
DocIds == {1}

Put(bag, x) == bag (+) SetToBag({x})
Take(bag, x) == bag (-) SetToBag({x})

RECURSIVE Total(_, _)
Total(bag, S) ==
    IF S = {} THEN 0
    ELSE LET x == CHOOSE y \in S : TRUE IN CopiesIn(x, bag) + Total(bag, S \ {x})

\* ------------------------------------------------------------ run records
\* kind "create": processResourceWithRawData awaited by createResource;
\* kind "async":  processResourceChunksAsync started by a trigger.
\* n passages; b: first passage of the current embedding batch;
\* emb[i]: "wait" (later batch), "req" (generator call outstanding), "back"
\* (backoff timer running), "ok", "err" (retries exhausted);
\* tries[i]: generator calls made for passage i; vec[i]: the vector obtained;
\* ins[i]: "none", "req" (INSERT outstanding), "ok", "err".
\* variant of NewRun that has already made its first generator call, used to
\* show that the property of the triggers' answers depends on it
NewRunPastFetch(d, kind, pc) ==
    [doc |-> d, kind |-> kind, pc |-> "embed", n |-> 1, b |-> 1,
     emb |-> <<"req">>, tries |-> <<1>>, vec |-> <<"none">>, ins |-> <<"none">>]

NewRun(d, kind, pc) ==
    [doc |-> d, kind |-> kind, pc |-> pc, n |-> 0, b |-> 0,
     emb |-> <<>>, tries |-> <<>>, vec |-> <<>>, ins |-> <<>>]

InBatch(run, i) == run.b <= i /\ i < run.b + batchSize

\* processTextAndInsertChunks up to its first await: chunkText has returned n
\* passages and the generator calls of the first batch are made.
StartEmbed(run, n) ==
    [run EXCEPT !.pc = "embed", !.n = n, !.b = 1,
                !.emb = [i \in 1..n |-> IF i <= batchSize THEN "req" ELSE "wait"],
                !.tries = [i \in 1..n |-> IF i <= batchSize THEN 1 ELSE 0],
                !.vec = [i \in 1..n |-> "none"],
                !.ins = [i \in 1..n |-> "none"]]

\* An error leaves processTextAndInsertChunks.  createResource logs it and
\* answers 201; processResourceChunksAsync issues UPDATE ... "failed".
Fail(run) ==
    IF run.kind = "create" THEN [run EXCEPT !.pc = "done"]
    ELSE [run EXCEPT !.pc = "markFailed"]

\* processTextAndInsertChunks returns normally.
Succeed(run) ==
    IF run.kind = "create" THEN [run EXCEPT !.pc = "done"]
    ELSE [run EXCEPT !.pc = "markCompleted"]

\* no generator call, timer or INSERT of the run is outstanding
Quiet(run) ==
    /\ \A i \in DOMAIN run.emb : run.emb[i] \notin {"req", "back"}
    /\ \A i \in DOMAIN run.ins : run.ins[i] # "req"

\* the run `old` of the bag has become `new`; a finished run with nothing
\* outstanding leaves the bag
Moved(bag, old, new) ==
    IF new.pc = "done" /\ Quiet(new) THEN Take(bag, old) ELSE Put(Take(bag, old), new)

NoEnd == [doc |-> 0, kind |-> "none", out |-> "none", left |-> "none"]

\* the outcome of a creation run is final when createResource answers
EndOf(old, new, out) ==
    IF old.kind = "create" /\ old.pc # "done" /\ new.pc = "done"
    THEN [doc |-> old.doc, kind |-> "create", out |-> out, left |-> status[old.doc]]
    ELSE NoEnd

\* ------------------------------------------------------- request records
\* A trigger request in flight: seen[d] is the processingStatus its SELECT
\* found for d, todo the documents whose UPDATE ... "processing" it has yet
\* to issue.
NewReq(op, seen, todo) == [op |-> op, seen |-> seen, todo |-> todo]

NoAnswer == [op |-> "none", doc |-> 0, seen |-> "none", resp |-> "none"]

\* variants of the two status tests, used to show that the properties below
\* depend on them
AlreadyHandledOnlyProcessing(st) == st = "processing"

PendingFilterWithCompleted(st) == st \in {"unset", "pending", "failed", "completed"}

\* processChunks answers without touching the document
AlreadyHandled(st) == st \in {"processing", "completed"}

\* the WHERE clause of processAllPending's SELECT
PendingFilter(st) == st \in {"unset", "pending", "failed"}

\* status writers of document d in flight: requests that have read and not
\* yet written, background runs that have not yet written their outcome
Writers(rq, rn, d) ==
    Total(rq, {x \in BagToSet(rq) : d \in x.todo})
    + Total(rn, {x \in BagToSet(rn) : x.kind = "async" /\ x.doc = d /\ x.pc # "done"})

NoteOverlap ==
    overlapped' = [d \in DOMAIN overlapped |-> overlapped[d] \/ Writers(reqs', runs', d) >= 2]

\* ------------------------------------------------- processTextAndInsertChunks
\* variants of the loop conditions, used to show that the properties below
\* depend on them
CanRetryOnceMore(made) == made <= retryCount

BatchResolvedByFirst(run) ==
    \E j \in 1..run.n : InBatch(run, j) /\ run.emb[j] = "ok"

LastBatchAlways(run) == TRUE

\* for (let retry = 0; retry < retryCount; retry++): another call follows a
\* failed one while fewer than retryCount calls have been made
CanRetry(made) == made < retryCount

\* Promise.all over the batch resolves when every item has returned
BatchResolved(run) ==
    \A j \in 1..run.n : InBatch(run, j) => run.emb[j] = "ok"

\* for (let i = 0; i < chunks.length; i += batchSize): no batch follows
LastBatch(run) == run.b + batchSize > run.n

\* metadata.position of the i-th passage chunkText returns
PositionOf(i) == i - 1

\* all insert promises are created by embeddings.map(async ...): every INSERT
\* is issued at once
IssueInserts(run) ==
    [run EXCEPT !.pc = "insert", !.ins = [i \in 1..run.n |-> "req"]]

\* what the run does when the generator call of passage i returns res:
\* "good" (a well-formed vector), "bad" (a vector of another length or with a
\* non-finite entry), "fail" (the call throws)
AfterReply(run, i, res) ==
    IF res = "fail"
    THEN IF CanRetry(run.tries[i]) THEN [run EXCEPT !.emb[i] = "back"]
         ELSE LET lost == [run EXCEPT !.emb[i] = "err"]
              IN  IF run.pc = "embed" THEN Fail(lost) ELSE lost
    ELSE LET got == [run EXCEPT !.emb[i] = "ok", !.vec[i] = res]
             \* the retry counters are locals of the batch's item functions
             rest == [got EXCEPT !.tries = [j \in 1..run.n |-> 0]]
         IN  IF got.pc = "embed" /\ BatchResolved(got)
             THEN IF LastBatch(got) THEN IssueInserts(rest)
                  ELSE [rest EXCEPT !.pc = "pause"]
             ELSE got

\* The awaits `await Promise.all(batch)` over the insert promises, taken in
\* order: "err" as soon as the awaited batch holds a rejected insert, "ok" when
\* every batch has resolved, "pending" otherwise.
RECURSIVE InsertAwait(_, _, _)
InsertAwait(ins, from, n) ==
    LET upto == IF from + insertBatchSize - 1 < n THEN from + insertBatchSize - 1 ELSE n
        batch == from..upto
    IN  IF \E i \in batch : ins[i] = "err" THEN "err"
        ELSE IF \E i \in batch : ins[i] # "ok" THEN "pending"
        ELSE IF upto >= n THEN "ok"
        ELSE InsertAwait(ins, upto + 1, n)

\* ------------------------------------------------------------ createResource
\* INSERT INTO resources, then processResourceWithRawData up to its first
\* datastore or generator call.  txt: the supplied text is "empty" or
\* "supplied"; rw: metadata.rawData is missing ("none"), extracts to nothing
\* ("bad") or extracts to text ("good").
CreateResource(txt, rw, n) ==
    /\ nDocs + 1 \in DocIds
    /\ LET d == nDocs + 1
           run == NewRun(d, "create", "start")
       IN  /\ nDocs' = d
           /\ status' = [status EXCEPT ![d] = "unset"]
           /\ text' = [text EXCEPT ![d] = txt]
           /\ raw' = [raw EXCEPT ![d] = rw]
           /\ IF rw = "good"
              THEN runs' = Put(runs, [run EXCEPT !.pc = "updText"]) /\ ended' = NoEnd
              ELSE IF txt = "supplied"
              THEN runs' = Put(runs, StartEmbed(run, n)) /\ ended' = NoEnd
              ELSE runs' = runs
                   /\ ended' = [doc |-> d, kind |-> "create", out |-> "nocontent",
                                 left |-> "unset"]
    /\ answered' = NoAnswer
    /\ UNCHANGED <<nReqs, chunks, reqs, completedN>>
    /\ NoteOverlap
    /\ UNCHANGED searchVars

\* UPDATE resources SET text_content = <extracted text>.  In the creation run
\* a failure is caught and logged; in the background run it is thrown.
UpdateText(run, ok, n) ==
    /\ BagIn(run, runs)
    /\ run.pc = "updText"
    /\ text' = IF ok /\ status[run.doc] # "absent"
               THEN [text EXCEPT ![run.doc] = "extracted"]
               ELSE text
    /\ runs' = Moved(runs, run,
                 IF ok \/ run.kind = "create" THEN StartEmbed(run, n) ELSE Fail(run))
    /\ answered' = NoAnswer
    /\ ended' = NoEnd
    /\ UNCHANGED <<nReqs, nDocs, status, raw, chunks, reqs, completedN>>
    /\ NoteOverlap
    /\ UNCHANGED searchVars

\* -------------------------------------------------------------- processChunks
\* SELECT id, metadata; answer 404 / "Already processing" / "Already processed",
\* or go on to the UPDATE.
ProcessChunksRead(d) ==
    /\ nReqs < MaxTriggers
    /\ nReqs' = nReqs + 1
    /\ IF d > nDocs
       THEN /\ reqs' = reqs
            /\ answered' = [op |-> "processChunks", doc |-> d, seen |-> "absent",
                            resp |-> "404"]
       ELSE IF AlreadyHandled(status[d])
       THEN /\ reqs' = reqs
            /\ answered' = [op |-> "processChunks", doc |-> d, seen |-> status[d],
                            resp |-> status[d]]
       ELSE /\ reqs' = Put(reqs, NewReq("processChunks", [x \in {d} |-> status[d]], {d}))
            /\ answered' = NoAnswer
    /\ ended' = NoEnd
    /\ UNCHANGED <<nDocs, status, text, raw, chunks, runs, completedN>>
    /\ NoteOverlap
    /\ UNCHANGED searchVars

\* a trigger's UPDATE ... "processing" for d lands, processResourceChunksAsync(d)
\* is called (it runs to its SELECT) and the handler goes on, to its next
\* UPDATE or to its answer
TriggerUpdate(rq, d) ==
    /\ BagIn(rq, reqs)
    /\ d \in rq.todo
    /\ status' = [status EXCEPT ![d] = "processing"]
    /\ runs' = Put(runs, NewRun(d, "async", "fetch"))
    /\ reqs' = IF rq.todo = {d} THEN Take(reqs, rq)
               ELSE Put(Take(reqs, rq), [rq EXCEPT !.todo = @ \ {d}])
    /\ answered' = NoAnswer
    /\ ended' = NoEnd
    /\ UNCHANGED <<nReqs, nDocs, text, raw, chunks, completedN>>
    /\ NoteOverlap
    /\ UNCHANGED searchVars

ProcessChunksUpdate(rq) ==
    /\ rq.op = "processChunks"
    /\ \E d \in rq.todo : TriggerUpdate(rq, d)

\* ---------------------------------------------------------- processAllPending
\* SELECT id FROM resources WHERE status IS NULL OR pending OR failed
ProcessAllRead ==
    /\ nReqs < MaxTriggers
    /\ nReqs' = nReqs + 1
    /\ LET rows == {d \in 1..nDocs : PendingFilter(status[d])}
       IN  IF rows = {}
           THEN /\ reqs' = reqs
                /\ answered' = [op |-> "processAllPending", doc |-> 0, seen |-> "none",
                                resp |-> "nopending"]
           ELSE /\ reqs' = Put(reqs, NewReq("processAllPending",
                                             [d \in rows |-> status[d]], rows))
                /\ answered' = NoAnswer
    /\ ended' = NoEnd
    /\ UNCHANGED <<nDocs, status, text, raw, chunks, runs, completedN>>
    /\ NoteOverlap
    /\ UNCHANGED searchVars

\* one iteration of `for (const row of pendingResult.rows)`; a SELECT without
\* ORDER BY returns the rows in any order
ProcessAllStep(rq) ==
    /\ rq.op = "processAllPending"
    /\ \E d \in rq.todo : TriggerUpdate(rq, d)

\* ------------------------------------------------- processResourceChunksAsync
\* SELECT * FROM resources WHERE id = $1, extractTextFromRawData, and on to
\* the text UPDATE or into processTextAndInsertChunks(enrichedContent).
\* createEnrichedContent puts "Title: <name>" first and name is never empty,
\* so the enriched content is never empty.
RunFetch(run, n) ==
    /\ BagIn(run, runs)
    /\ run.pc = "fetch"
    \* if (result.rows.length === 0) throw new Error('Resource not found')
    /\ runs' = Moved(runs, run,
                 IF status[run.doc] = "absent" THEN Fail(run)
                 ELSE IF raw[run.doc] = "good" THEN [run EXCEPT !.pc = "updText"]
                 ELSE StartEmbed(run, n))
    /\ answered' = NoAnswer
    /\ ended' = NoEnd
    /\ UNCHANGED <<nReqs, nDocs, status, text, raw, chunks, reqs, completedN>>
    /\ NoteOverlap
    /\ UNCHANGED searchVars

\* The embedding loop (chunkEmbed.ts 228-276) from its first call to its
\* outcome, as one step: the loop reads and writes nothing in the datastore,
\* so for the requests and the tables only its outcome counts: every passage
\* got a vector, or one passage failed retryCount times.
EmbedAll(run, ok) ==
    /\ BagIn(run, runs)
    /\ run.pc = "embed"
    /\ LET items == 1..run.n
           new == IF ok
                  THEN IssueInserts([run EXCEPT !.emb = [i \in items |-> "ok"],
                                                !.tries = [i \in items |-> 0],
                                                !.vec = [i \in items |-> "good"]])
                  ELSE Fail([run EXCEPT !.emb = [i \in items |-> "err"],
                                        !.tries = [i \in items |-> retryCount]])
       IN  /\ runs' = Moved(runs, run, new)
           /\ ended' = EndOf(run, new, "error")
    /\ answered' = NoAnswer
    /\ UNCHANGED <<nReqs, nDocs, status, text, raw, chunks, reqs, completedN>>
    /\ NoteOverlap
    /\ UNCHANGED searchVars

\* a generator call returns
EmbedReply(run, i, res) ==
    /\ BagIn(run, runs)
    /\ i \in DOMAIN run.emb
    /\ run.emb[i] = "req"
    /\ LET new == AfterReply(run, i, res)
       IN  /\ runs' = Moved(runs, run, new)
           /\ ended' = EndOf(run, new, "error")
    /\ answered' = NoAnswer
    /\ UNCHANGED <<nReqs, nDocs, status, text, raw, chunks, reqs, completedN>>
    /\ NoteOverlap
    /\ UNCHANGED searchVars

\* the backoff timer of passage i fires: the next generator call is made
EmbedRetry(run, i) ==
    /\ BagIn(run, runs)
    /\ i \in DOMAIN run.emb
    /\ run.emb[i] = "back"
    /\ runs' = Moved(runs, run, [run EXCEPT !.emb[i] = "req", !.tries[i] = @ + 1])
    /\ answered' = NoAnswer
    /\ ended' = NoEnd
    /\ UNCHANGED <<nReqs, nDocs, status, text, raw, chunks, reqs, completedN>>
    /\ NoteOverlap
    /\ UNCHANGED searchVars

\* the 500 ms pause between batches ends: the calls of the next batch are made
NextBatch(run) ==
    /\ BagIn(run, runs)
    /\ run.pc = "pause"
    /\ LET nb == run.b + batchSize
           on == [run EXCEPT !.b = nb]
       IN  runs' = Moved(runs, run,
              [on EXCEPT !.pc = "embed",
                         !.emb = [i \in 1..run.n |-> IF InBatch(on, i) THEN "req" ELSE @[i]],
                         !.tries = [i \in 1..run.n |-> IF InBatch(on, i) THEN 1 ELSE @[i]]])
    /\ answered' = NoAnswer
    /\ ended' = NoEnd
    /\ UNCHANGED <<nReqs, nDocs, status, text, raw, chunks, reqs, completedN>>
    /\ NoteOverlap
    /\ UNCHANGED searchVars

\* variant of ChunkRow that names the first document whatever the run, used to
\* show that the independence of two runs depends on the row's resource_id
ChunkRowOfFirstDocument(run, i) ==
    [doc |-> 1, pos |-> PositionOf(i), vec |-> run.vec[i]]

\* VALUES ($1, ...): the row carries the resourceId the run was called with
ChunkRow(run, i) ==
    [doc |-> run.doc, pos |-> PositionOf(i), vec |-> run.vec[i]]

\* one INSERT INTO chunks returns: the row is stored, or the datastore reports
\* an error.  The run itself moves only while it awaits the inserts.
InsertDone(run, i, ok) ==
    /\ BagIn(run, runs)
    /\ i \in DOMAIN run.ins
    /\ run.ins[i] = "req"
    /\ chunks' = IF ok
                 THEN Put(chunks, ChunkRow(run, i))
                 ELSE chunks
    /\ LET run2 == [run EXCEPT !.ins[i] = IF ok THEN "ok" ELSE "err"]
           res == InsertAwait(run2.ins, 1, run2.n)
           new == IF run2.pc # "insert" \/ res = "pending" THEN run2
                  ELSE IF res = "ok" THEN Succeed(run2)
                  ELSE Fail(run2)
       IN  /\ runs' = Moved(runs, run, new)
           /\ ended' = EndOf(run, new, IF res = "ok" THEN "ok" ELSE "error")
    /\ answered' = NoAnswer
    /\ UNCHANGED <<nReqs, nDocs, status, text, raw, reqs, completedN>>
    /\ NoteOverlap
    /\ UNCHANGED searchVars

\* UPDATE resources SET metadata = jsonb_set(...) WHERE id = $1 changes the
\* row of document d, and nothing when the row is gone
Updated(st, d, to) == IF st[d] = "absent" THEN st ELSE [st EXCEPT ![d] = to]

\* UPDATE ... processingStatus "completed"
MarkCompleted(run) ==
    /\ BagIn(run, runs)
    /\ run.pc = "markCompleted"
    /\ status' = Updated(status, run.doc, "completed")
    /\ completedN' = [completedN EXCEPT ![run.doc] = run.n]
    /\ runs' = Moved(runs, run, [run EXCEPT !.pc = "done"])
    /\ ended' = [doc |-> run.doc, kind |-> "async", out |-> "ok", left |-> status'[run.doc]]
    /\ answered' = NoAnswer
    /\ UNCHANGED <<nReqs, nDocs, text, raw, chunks, reqs>>
    /\ NoteOverlap
    /\ UNCHANGED searchVars

\* UPDATE ... processingStatus "failed", in the catch block
MarkFailed(run) ==
    /\ BagIn(run, runs)
    /\ run.pc = "markFailed"
    /\ status' = Updated(status, run.doc, "failed")
    /\ runs' = Moved(runs, run, [run EXCEPT !.pc = "done"])
    /\ ended' = [doc |-> run.doc, kind |-> "async", out |-> "error", left |-> status'[run.doc]]
    /\ answered' = NoAnswer
    /\ UNCHANGED <<nReqs, nDocs, text, raw, chunks, reqs, completedN>>
    /\ NoteOverlap
    /\ UNCHANGED searchVars

\* ----------------------------------------------- datastore errors in the run
\* The statements of processResourceChunksAsync that the steps above take to
\* succeed can return an error as well.  These outcomes are followed in
\* SpecLive.

\* SELECT * FROM resources WHERE id = $1 returns an error: the catch block
RunFetchError(run) ==
    /\ BagIn(run, runs)
    /\ run.pc = "fetch"
    /\ runs' = Moved(runs, run, Fail(run))
    /\ answered' = NoAnswer
    /\ ended' = NoEnd
    /\ UNCHANGED <<nReqs, nDocs, status, text, raw, chunks, reqs, completedN>>
    /\ NoteOverlap
    /\ UNCHANGED searchVars

\* UPDATE ... "completed" returns an error: it is inside the try, the catch
\* block follows
MarkCompletedError(run) ==
    /\ BagIn(run, runs)
    /\ run.pc = "markCompleted"
    /\ runs' = Moved(runs, run, Fail(run))
    /\ answered' = NoAnswer
    /\ ended' = NoEnd
    /\ UNCHANGED <<nReqs, nDocs, status, text, raw, chunks, reqs, completedN>>
    /\ NoteOverlap
    /\ UNCHANGED searchVars

\* UPDATE ... "failed" returns an error: it is awaited inside the catch block
\* with no handler around it, so the promise of processResourceChunksAsync
\* rejects, no caller awaits it, and the status stays as it was
MarkFailedError(run) ==
    /\ BagIn(run, runs)
    /\ run.pc = "markFailed"
    /\ runs' = Moved(runs, run, [run EXCEPT !.pc = "done"])
    /\ ended' = [doc |-> run.doc, kind |-> "async", out |-> "error",
                  left |-> status[run.doc]]
    /\ answered' = NoAnswer
    /\ UNCHANGED <<nReqs, nDocs, status, text, raw, chunks, reqs, completedN>>
    /\ NoteOverlap
    /\ UNCHANGED searchVars

\* ------------------------------------------------------------------ search
\* Scores are in thousandths (0.95 is 950); all scores used are multiples of
\* 50, so 0.6 * a + 0.4 * b is (6a + 4b) \div 10 without rounding.
Min(a, b) == IF a < b THEN a ELSE b

Max(a, b) == IF a > b THEN a ELSE b

\* (resource_id, chunk_id) keys a search can return
Keys == {1, 2}

\* the fields of a row whose lower-cased text can contain the lower-cased query
Fields == {"title", "publishers", "description", "tags", "text"}

\* <<title_rank, desc_rank, text_rank>> of a row the keyword query returns: its
\* WHERE clause asks for a full-text match in one of the three
RankCases == {<<100, 0, 0>>, <<400, 0, 100>>, <<0, 400, 0>>, <<0, 0, 100>>, <<0, 0, 400>>}

\* final_score values vectorSearch returns; ts_rank_cd is not normalised, so
\* similarity * 0.5 + text_rank * 0.5 can exceed 1
VectorScores == {600, 1100}

NoRow == [src |-> "none", final_score |-> 0, text_rank |-> 0, where |-> {}]

NoResult == [match_type |-> "none", final_score |-> 0]

\* variant of calculateKeywordScore, used to show that the merge property
\* depends on it
KeywordScoreAsReturned(row) == row.final_score

\* the row keywordSearch builds from a datastore row with ranks r whose fields
\* in `where` contain the query
KeywordRow(r, where) ==
    LET byRank == IF r[1] > 0 THEN Max(500, Min(950, 700 + r[1]))
                  ELSE IF r[2] > 0 THEN Max(500, Min(750, 500 + r[2]))
                  ELSE IF r[3] > 0 THEN Min(650, 300 + r[3])
                  ELSE 500
    IN  [src |-> "keyword",
         final_score |-> IF "publishers" \in where THEN Max(byRank, 850) ELSE byRank,
         text_rank |-> r[3],
         where |-> where]

VectorRow(score) == [src |-> "vector", final_score |-> score, text_rank |-> 0, where |-> {}]

calculateKeywordScore(row) ==
    LET s1 == IF "title" \in row.where THEN Max(0, 950) ELSE 0
        s2 == IF "publishers" \in row.where THEN Max(s1, 850) ELSE s1
        s3 == IF "description" \in row.where THEN Max(s2, 750) ELSE s2
        s4 == IF "tags" \in row.where THEN Max(s3, 700) ELSE s3
        textScore == Min(650, IF row.text_rank = 0 THEN 500 ELSE row.text_rank)
    IN  IF "text" \in row.where THEN Max(s4, textScore) ELSE s4

\* keywordResults.forEach: every keyword row enters the map with its
\* recomputed score
AddKeywordResults(kw) ==
    [k \in DOMAIN kw |->
        IF kw[k].src = "keyword"
        THEN [match_type |-> "keyword", final_score |-> calculateKeywordScore(kw[k])]
        ELSE NoResult]

\* vectorResults.forEach: a key already in the map is combined, a new key
\* enters with the vector row's score
AddVectorResults(map, vec) ==
    [k \in DOMAIN vec |->
        IF vec[k].src # "vector" THEN map[k]
        ELSE IF map[k].match_type # "none"
        THEN [match_type |-> "hybrid",
              final_score |-> Min(1000, (map[k].final_score * 6 + vec[k].final_score * 4) \div 10)]
        ELSE [match_type |-> "vector", final_score |-> vec[k].final_score]]

\* ---------------------------------------------------------------- previews
\* A preview is a string, kept as a sequence of characters.  The alphabet has
\* two letters and the space: lower-casing leaves it unchanged and it has no
\* highlight marker, so of replace/toLowerCase/trim only trim acts on it.
Chars == {"a", "b", " "}

\* the white space of the texts of the model: trim() and \\s take both
WhiteSpace == {" ", "\n"}

RECURSIVE TrimStart(_)
TrimStart(s) == IF s # <<>> /\ Head(s) \in WhiteSpace THEN TrimStart(Tail(s)) ELSE s

RECURSIVE TrimEnd(_)
TrimEnd(s) ==
    IF s # <<>> /\ s[Len(s)] \in WhiteSpace THEN TrimEnd(SubSeq(s, 1, Len(s) - 1)) ELSE s

\* text.replace(/\*\*/g, '').toLowerCase().trim()
Clean(s) == TrimEnd(TrimStart(s))

\* s.includes(t)
Includes(s, t) ==
    \E i \in 0..(Len(s) - Len(t)) : SubSeq(s, i + 1, i + Len(t)) = t

\* new Set(s.split(/\s+/)) of a trimmed, non-empty string
Words(s) ==
    {SubSeq(s, p[1], p[2]) :
        p \in {q \in (1..Len(s)) \X (1..Len(s)) :
                 /\ q[1] <= q[2]
                 /\ \A x \in q[1]..q[2] : s[x] # " "
                 /\ (q[1] = 1 \/ s[q[1] - 1] = " ")
                 /\ (q[2] = Len(s) \/ s[q[2] + 1] = " ")}}

\* variant of calculateSimpleSimilarity without the containment rule, used to
\* show that the dedup property depends on it
SimilarityByWordsOnly(text1, text2) ==
    LET clean1 == Clean(text1)
        clean2 == Clean(text2)
    IN  IF text1 = <<>> \/ text2 = <<>> THEN 0
        ELSE IF clean1 = clean2 THEN 1000
        ELSE IF Len(clean1) = 0 \/ Len(clean2) = 0 THEN 0
        ELSE (Cardinality(Words(clean1) \cap Words(clean2)) * 2000)
                 \div (Cardinality(Words(clean1)) + Cardinality(Words(clean2)))

\* in thousandths; the quotient is rounded down, which does not change its
\* comparison with 850
calculateSimpleSimilarity(text1, text2) ==
    LET clean1 == Clean(text1)
        clean2 == Clean(text2)
    IN  IF text1 = <<>> \/ text2 = <<>> THEN 0
        ELSE IF clean1 = clean2 THEN 1000
        ELSE IF Len(clean1) = 0 \/ Len(clean2) = 0 THEN 0
        ELSE IF Includes(clean1, clean2) \/ Includes(clean2, clean1) THEN 900
        ELSE (Cardinality(Words(clean1) \cap Words(clean2)) * 2000)
                 \div (Cardinality(Words(clean1)) + Cardinality(Words(clean2)))

\* ---------------------------------------------------------------- grouping
\* the metadata of a document whose text can contain the query
MetaFields == {"title", "publishers", "description", "tags"}

\* A resources row: cols are the fields among name, the publishers column,
\* the description column and metadata.tags that contain the query; json says
\* whether the metadata JSON repeats publishers and description under its own
\* keys.  A chunks row: its document, the preview highlightMatchedText cuts
\* from its text, whether that preview starts with a metadata label, and its
\* position in the document.
NoResource == [cols |-> {}, json |-> FALSE]

NoChunk == [resource_id |-> 0, preview |-> <<>>, metaOnly |-> FALSE, position |-> 0]

\* resource_title and resource_metadata of a keyword row: keywordSearch
\* overwrites the publishers and description keys with the two columns
KeywordView(res) == res.cols

\* resource_title and resource_metadata of a vector row: vectorSearch selects
\* r.metadata alone
VectorView(res) == {f \in res.cols : f \in {"title", "tags"} \/ res.json}

\* variant of the combination, used to show that the score property depends
\* on it
CombinedScoreChunkOnly(metadataScore, chunkScore) == chunkScore

calculateMetadataScore(seen) ==
    IF "title" \in seen THEN 950
    ELSE IF "publishers" \in seen THEN 850
    ELSE IF "description" \in seen THEN 750
    ELSE IF "tags" \in seen THEN 700
    ELSE 0

\* combinedScore of the reduce; merged scores are multiples of 10 and metadata
\* scores multiples of 50, so the division is exact
CombinedScore(metadataScore, chunkScore) ==
    IF metadataScore > 0
    THEN Min(1000, (metadataScore * 3 + chunkScore * 7) \div 10)
    ELSE chunkScore

\* the value of resultMap for key k: the spread row is the keyword row for a
\* keyword match and the vector row for a hybrid or vector match
MergedRow(k, map, kw, ch, rs) ==
    [chunk_id |-> k,
     resource_id |-> ch[k].resource_id,
     final_score |-> map[k].final_score,
     match_type |-> map[k].match_type,
     seen |-> IF map[k].match_type = "keyword" THEN kw[k].where \cap MetaFields
              ELSE VectorView(rs[ch[k].resource_id]),
     preview |-> ch[k].preview,
     metaOnly |-> ch[k].metaOnly,
     position |-> ch[k].position]

\* Insertion order of resultMap among the rows of one document: keyword rows
\* first, by text_rank DESC (the CASE of ORDER BY is the same for all rows of
\* a document), then the rows only vectorSearch returned, by final_score.
\* The order between rows of different documents does not reach the groups.
RowBefore(j, k, kw, vec) ==
    IF (kw[j].src = "keyword") # (kw[k].src = "keyword") THEN kw[j].src = "keyword"
    ELSE IF kw[j].src = "keyword"
    THEN kw[j].text_rank > kw[k].text_rank \/ (kw[j].text_rank = kw[k].text_rank /\ j < k)
    ELSE vec[j].final_score > vec[k].final_score
         \/ (vec[j].final_score = vec[k].final_score /\ j < k)

\* Array.from(resultMap.values())
RECURSIVE AllResults(_, _, _, _, _, _)
AllResults(S, map, kw, vec, ch, rs) ==
    IF S = {} THEN <<>>
    ELSE LET k == CHOOSE j \in S : \A i \in S \ {j} : RowBefore(j, i, kw, vec)
         IN  <<MergedRow(k, map, kw, ch, rs)>> \o AllResults(S \ {k}, map, kw, vec, ch, rs)

NoGroup ==
    [resource_id |-> 0, max_score |-> 0, metadata_match_score |-> 0,
     chunk_count |-> 0, chunks |-> <<>>, processedChunkIds |-> {}]

\* variant of MeaningfulChunk without the exception for an empty group, used
\* to show that the first excerpt of a group depends on it
MeaningfulChunkNeverHeader(isMetadataOnly, length) == ~isMetadataOnly

\* if (!isMetadataOnly || acc[resourceId].chunks.length === 0)
MeaningfulChunk(isMetadataOnly, length) == ~isMetadataOnly \/ length = 0

\* one call of the reducer
GroupRow(acc, row) ==
    LET r == row.resource_id
        g0 == IF acc[r].resource_id = 0
              THEN [NoGroup EXCEPT !.resource_id = r,
                                   !.max_score = calculateMetadataScore(row.seen),
                                   !.metadata_match_score = calculateMetadataScore(row.seen)]
              ELSE acc[r]
        similarExists ==
            \E i \in 1..Len(g0.chunks) :
                calculateSimpleSimilarity(g0.chunks[i].preview, row.preview) > 850
        push == /\ row.chunk_id \notin g0.processedChunkIds
                /\ MeaningfulChunk(row.metaOnly, Len(g0.chunks))
                /\ ~similarExists
        g1 == [g0 EXCEPT
                 !.processedChunkIds = @ \cup {row.chunk_id},
                 !.chunks = IF push
                            THEN Append(@, [id |-> row.chunk_id, score |-> row.final_score,
                                            preview |-> row.preview,
                                            position |-> row.position])
                            ELSE @,
                 !.chunk_count = IF push THEN @ + 1 ELSE @]
    IN  [acc EXCEPT ![r] =
            [g1 EXCEPT !.max_score =
                Max(@, CombinedScore(g1.metadata_match_score, row.final_score))]]

\* allResults.reduce(..., {})
RECURSIVE GroupedResults(_, _)
GroupedResults(acc, rows) ==
    IF rows = <<>> THEN acc ELSE GroupedResults(GroupRow(acc, Head(rows)), Tail(rows))

\* Object.values of an object with integer keys: ascending key order
RECURSIVE ObjectValues(_, _)
ObjectValues(acc, S) ==
    IF S = {} THEN <<>>
    ELSE LET r == CHOOSE x \in S : \A y \in S : x <= y
         IN  (IF acc[r].resource_id = 0 THEN <<>> ELSE <<acc[r]>>)
             \o ObjectValues(acc, S \ {r})

\* the comparator of documents.sort: positive when b goes before a
CompareDocuments(a, b) ==
    IF a.max_score - b.max_score > 10 \/ b.max_score - a.max_score > 10
    THEN b.max_score - a.max_score
    ELSE b.chunk_count - a.chunk_count

\* the comparator of doc.chunks.sort
CompareChunks(a, b) ==
    IF a.score - b.score > 10 \/ b.score - a.score > 10
    THEN b.score - a.score
    ELSE a.position - b.position

\* Array.prototype.sort is stable: an element goes after those the comparator
\* puts before it and after the equal ones that preceded it.  Both
\* comparators are inconsistent on some triples, where the result depends on
\* the engine; the searches of the model sort at most two groups, and three
\* passages only when their scores are equal.
StableSort(s, by) ==
    LET Compare(a, b) == IF by = "documents" THEN CompareDocuments(a, b)
                         ELSE CompareChunks(a, b)
        rank(i) ==
            1 + Cardinality({j \in 1..Len(s) :
                               \/ Compare(s[j], s[i]) < 0
                               \/ (Compare(s[j], s[i]) = 0 /\ j < i)})
    IN  [p \in 1..Len(s) |-> s[CHOOSE i \in 1..Len(s) : rank(i) = p]]

\* Object.values(groupedResults).map(...): the tracking set is deleted and
\* the passages are sorted
CleanUp(doc) ==
    [resource_id |-> doc.resource_id,
     max_score |-> doc.max_score,
     metadata_match_score |-> doc.metadata_match_score,
     chunk_count |-> doc.chunk_count,
     chunks |-> StableSort(doc.chunks, "chunks")]

\* searchAllResourcesGrouped, from the two retrievers' results to the response
SearchAllResourcesGrouped ==
    /\ ~searched
    /\ searched' = TRUE
    /\ resultMap' = AddVectorResults(AddKeywordResults(keywordResults), vectorResults)
    \* allResults and groupedResults are bound as values, once each
    /\ \E allResults \in
            {AllResults({k \in DOMAIN resultMap' : resultMap'[k].match_type # "none"},
                        resultMap', keywordResults, vectorResults, chunkRows, resourceRows)} :
       \E groupedResults \in
            {GroupedResults([r \in DOMAIN resourceRows |-> NoGroup], allResults)} :
          \E values \in {ObjectValues(groupedResults, DOMAIN resourceRows)} :
             documents' = StableSort([i \in 1..Len(values) |-> CleanUp(values[i])],
                                     "documents")
    /\ UNCHANGED <<keywordResults, vectorResults, chunkRows, resourceRows, queryVars, callVars>>
    /\ UNCHANGED <<nReqs, nDocs, status, text, raw, chunks, reqs, runs,
                   answered, ended, completedN, overlapped>>

\* ----------------------------------------------------------- search requests
\* A search request in flight: the operation, the query and resourceId of its
\* body, the call it awaits ("keyword": keywordSearch's SELECT, "embed": the
\* generator call of embedQuery, "vector": vectorSearch's SELECT) and the
\* collaborator calls it has made.
NoRequest == [op |-> "none", query |-> "none", pc |-> "none", calls |-> 0]

NoResponse == [op |-> "none", query |-> "none", code |-> 0, calls |-> 0, failed |-> FALSE]

\* no function is followed alone
NoCall == [fn |-> "none"]

NoQuery ==
    /\ search = NoRequest
    /\ response = NoResponse
    /\ nSearches = 0

NoCallMade ==
    /\ args = NoCall
    /\ returned = <<>>

NoSearch ==
    /\ NoQuery
    /\ keywordResults = [k \in Keys |-> NoRow]
    /\ vectorResults = [k \in Keys |-> NoRow]
    /\ resultMap = [k \in Keys |-> NoResult]
    /\ searched = FALSE
    /\ chunkRows = [k \in Keys |-> NoChunk]
    /\ resourceRows = [r \in Keys |-> NoResource]
    /\ documents = <<>>

\* ------------------------------------------------------------ specification
\* the documents createResource is given: plain text, an upload that extracts
\* to text, an upload that does not (with and without supplied text), nothing
DocKinds == {<<"supplied", "none">>, <<"empty", "good">>, <<"supplied", "bad">>,
             <<"empty", "bad">>}

Replies == {"good", "bad", "fail"}

Init ==
    /\ nReqs = 0
    /\ nDocs = 0
    /\ status = [d \in DocIds |-> "absent"]
    /\ text = [d \in DocIds |-> "absent"]
    /\ raw = [d \in DocIds |-> "absent"]
    /\ chunks = EmptyBag
    /\ reqs = EmptyBag
    /\ runs = EmptyBag
    /\ answered = NoAnswer
    /\ ended = NoEnd
    /\ completedN = [d \in DocIds |-> 0]
    /\ overlapped = [d \in DocIds |-> FALSE]
    /\ NoSearch
    /\ NoCallMade

Next ==
    \/ \E k \in DocKinds, n \in 1..LifeChunks : CreateResource(k[1], k[2], n)
    \/ \E run \in BagToSet(runs), ok \in BOOLEAN, n \in 1..LifeChunks : UpdateText(run, ok, n)
    \/ \E d \in DocIds : ProcessChunksRead(d)
    \/ \E rq \in BagToSet(reqs) : ProcessChunksUpdate(rq)
    \/ ProcessAllRead
    \/ \E rq \in BagToSet(reqs) : ProcessAllStep(rq)
    \/ \E run \in BagToSet(runs), n \in 1..LifeChunks : RunFetch(run, n)
    \/ \E run \in BagToSet(runs), ok \in BOOLEAN : EmbedAll(run, ok)
    \/ \E run \in BagToSet(runs), i \in 1..LifeChunks, ok \in BOOLEAN : InsertDone(run, i, ok)
    \/ \E run \in BagToSet(runs) : MarkCompleted(run)
    \/ \E run \in BagToSet(runs) : MarkFailed(run)

Spec == Init /\ [][Next]_vars

\* ---------------------------------------------------------------- SpecRun
\* One background run, call by call.  It starts where Spec leaves document 1
\* after createResource stored no passage and processChunks has set the status
\* and called processResourceChunksAsync.
InitRun ==
    /\ nReqs = 1
    /\ nDocs = 1
    /\ status = [d \in DocIds |-> "processing"]
    /\ \E k \in DocKinds : text = [d \in DocIds |-> k[1]] /\ raw = [d \in DocIds |-> k[2]]
    /\ chunks = EmptyBag
    /\ reqs = EmptyBag
    /\ runs = SetToBag({NewRun(1, "async", "fetch")})
    /\ answered = NoAnswer
    /\ ended = NoEnd
    /\ completedN = [d \in DocIds |-> 0]
    /\ overlapped = [d \in DocIds |-> FALSE]
    /\ NoSearch
    /\ NoCallMade

NextRun ==
    \/ \E run \in BagToSet(runs), n \in 1..MaxChunks : RunFetch(run, n)
    \/ \E run \in BagToSet(runs), ok \in BOOLEAN, n \in 1..MaxChunks : UpdateText(run, ok, n)
    \/ \E run \in BagToSet(runs), i \in 1..MaxChunks, res \in Replies : EmbedReply(run, i, res)
    \/ \E run \in BagToSet(runs), i \in 1..MaxChunks : EmbedRetry(run, i)
    \/ \E run \in BagToSet(runs) : NextBatch(run)
    \/ \E run \in BagToSet(runs), i \in 1..MaxChunks, ok \in BOOLEAN : InsertDone(run, i, ok)
    \/ \E run \in BagToSet(runs) : MarkCompleted(run)
    \/ \E run \in BagToSet(runs) : MarkFailed(run)

SpecRun == InitRun /\ [][NextRun]_vars

\* -------------------------------------------------------------- SpecDelete
\* deleteResource next to one background run.  A delete request in flight
\* names its document (id) and the statement it awaits: pc "chunks" is DELETE
\* FROM chunks, pc "row" is DELETE FROM resources.
NewDelete(d) == [op |-> "deleteResource", seen |-> "none", todo |-> {}, id |-> d, pc |-> "chunks"]

\* DELETE FROM chunks WHERE resource_id = $1
WithoutChunksOf(ch, d) ==
    LET kept == {x \in BagToSet(ch) : x.doc # d}
    IN  [x \in kept |-> CopiesIn(x, ch)]

\* the chunks table after the resources row of document d is deleted: the
\* storage collaborator deletes the rows a statement names, and no others
ChunksAfterResourceDeleted(ch, d) == ch

\* deleteResource up to its first await: the id is validated and
\* deleteResourceChunks has issued its statement
DeleteResource(d) ==
    /\ nReqs < MaxTriggers
    /\ nReqs' = nReqs + 1
    /\ reqs' = Put(reqs, NewDelete(d))
    /\ answered' = NoAnswer
    /\ ended' = NoEnd
    /\ UNCHANGED <<nDocs, status, text, raw, chunks, runs, completedN>>
    /\ NoteOverlap
    /\ UNCHANGED searchVars

\* DELETE FROM chunks returns.  deleteResourceChunks rethrows an error and
\* deleteResource catches it: "Continue with resource deletion even if chunk
\* deletion fails".  DELETE FROM resources is issued.
DeleteChunksDone(rq, ok) ==
    /\ BagIn(rq, reqs)
    /\ rq.op = "deleteResource"
    /\ rq.pc = "chunks"
    /\ chunks' = IF ok THEN WithoutChunksOf(chunks, rq.id) ELSE chunks
    /\ reqs' = Put(Take(reqs, rq), [rq EXCEPT !.pc = "row"])
    /\ answered' = NoAnswer
    /\ ended' = NoEnd
    /\ UNCHANGED <<nReqs, nDocs, status, text, raw, runs, completedN>>
    /\ NoteOverlap
    /\ UNCHANGED searchVars

\* DELETE FROM resources WHERE id = $1 RETURNING id, name returns: the row is
\* deleted (200), there was none (404), or the datastore reports an error (500)
DeleteRowDone(rq, ok) ==
    /\ BagIn(rq, reqs)
    /\ rq.op = "deleteResource"
    /\ rq.pc = "row"
    /\ LET gone == ok /\ status[rq.id] # "absent"
       IN  /\ status' = IF gone THEN [status EXCEPT ![rq.id] = "absent"] ELSE status
           /\ text' = IF gone THEN [text EXCEPT ![rq.id] = "absent"] ELSE text
           /\ raw' = IF gone THEN [raw EXCEPT ![rq.id] = "absent"] ELSE raw
           /\ chunks' = IF gone THEN ChunksAfterResourceDeleted(chunks, rq.id) ELSE chunks
           /\ answered' = [op |-> "deleteResource", doc |-> rq.id, seen |-> status[rq.id],
                           resp |-> IF gone THEN "200" ELSE IF ok THEN "404" ELSE "500"]
    /\ reqs' = Take(reqs, rq)
    /\ ended' = NoEnd
    /\ UNCHANGED <<nReqs, nDocs, runs, completedN>>
    /\ NoteOverlap
    /\ UNCHANGED searchVars

\* the run of SpecRun, and deleteResource requests for its document
InitDelete == InitRun

NextDelete ==
    \/ NextRun
    \/ \E d \in DocIds : DeleteResource(d)
    \/ \E rq \in BagToSet(reqs), ok \in BOOLEAN : DeleteChunksDone(rq, ok)
    \/ \E rq \in BagToSet(reqs), ok \in BOOLEAN : DeleteRowDone(rq, ok)

SpecDelete == InitDelete /\ [][NextDelete]_vars

\* -------------------------------------------------------------- SpecInsert
\* The end of one background run over InsertChunks passages: the generator
\* call of the last passage is outstanding, every earlier passage has its
\* vector.  The datastore stores every row it is given.
LastCallOutstanding ==
    LET n == InsertChunks
        last == ((n - 1) \div batchSize) * batchSize + 1
    IN  [doc |-> 1, kind |-> "async", pc |-> "embed", n |-> n, b |-> last,
         emb |-> [i \in 1..n |-> IF i = n THEN "req" ELSE "ok"],
         tries |-> [i \in 1..n |-> IF i >= last THEN 1 ELSE 0],
         vec |-> [i \in 1..n |-> IF i = n THEN "none" ELSE "good"],
         ins |-> [i \in 1..n |-> "none"]]

InitInsert ==
    /\ nReqs = 1
    /\ nDocs = 1
    /\ status = [d \in DocIds |-> "processing"]
    /\ text = [d \in DocIds |-> "supplied"]
    /\ raw = [d \in DocIds |-> "none"]
    /\ chunks = EmptyBag
    /\ reqs = EmptyBag
    /\ runs = SetToBag({LastCallOutstanding})
    /\ answered = NoAnswer
    /\ ended = NoEnd
    /\ completedN = [d \in DocIds |-> 0]
    /\ overlapped = [d \in DocIds |-> FALSE]
    /\ NoSearch
    /\ NoCallMade

NextInsert ==
    \/ \E run \in BagToSet(runs), res \in Replies : EmbedReply(run, InsertChunks, res)
    \/ \E run \in BagToSet(runs) : EmbedRetry(run, InsertChunks)
    \/ \E run \in BagToSet(runs), i \in 1..InsertChunks : InsertDone(run, i, TRUE)
    \/ \E run \in BagToSet(runs) : MarkCompleted(run)
    \/ \E run \in BagToSet(runs) : MarkFailed(run)

SpecInsert == InitInsert /\ [][NextInsert]_vars

\* --------------------------------------------------------------- SpecMerge
\* One search: the two retrievers have returned their rows, the handler merges
\* them.  No document is being ingested.
KeywordRows ==
    {KeywordRow(r, w) : r \in RankCases,
                        w \in {x \in SUBSET Fields : Cardinality(x) <= MaxFields}}

InitMerge ==
    /\ nReqs = 0
    /\ nDocs = 0
    /\ status = [d \in DocIds |-> "absent"]
    /\ text = [d \in DocIds |-> "absent"]
    /\ raw = [d \in DocIds |-> "absent"]
    /\ chunks = EmptyBag
    /\ reqs = EmptyBag
    /\ runs = EmptyBag
    /\ answered = NoAnswer
    /\ ended = NoEnd
    /\ completedN = [d \in DocIds |-> 0]
    /\ overlapped = [d \in DocIds |-> FALSE]
    /\ NoQuery
    /\ NoCallMade
    /\ keywordResults \in [Keys -> KeywordRows \cup {NoRow}]
    /\ vectorResults \in [Keys -> {VectorRow(v) : v \in VectorScores} \cup {NoRow}]
    /\ resultMap = [k \in Keys |-> NoResult]
    /\ searched = FALSE
    \* every key is the one passage of its own document
    /\ chunkRows = [k \in Keys |-> [resource_id |-> k, preview |-> <<"a">>,
                                    metaOnly |-> FALSE, position |-> 0]]
    /\ resourceRows = [r \in Keys |-> [cols |-> keywordResults[r].where \cap MetaFields,
                                       json |-> FALSE]]
    /\ documents = <<>>

NextMerge == SearchAllResourcesGrouped

SpecMerge == InitMerge /\ [][NextMerge]_vars

\* --------------------------------------------------------------- SpecDedup
\* One search whose rows are three passages of one document: the keyword
\* retriever has returned them with the same rank, the handler groups them.
\* No document is being ingested.
NoIngestion ==
    /\ nReqs = 0
    /\ nDocs = 0
    /\ status = [d \in DocIds |-> "absent"]
    /\ text = [d \in DocIds |-> "absent"]
    /\ raw = [d \in DocIds |-> "absent"]
    /\ chunks = EmptyBag
    /\ reqs = EmptyBag
    /\ runs = EmptyBag
    /\ answered = NoAnswer
    /\ ended = NoEnd
    /\ completedN = [d \in DocIds |-> 0]
    /\ overlapped = [d \in DocIds |-> FALSE]

DedupKeys == {1, 2, 3}

\* the previews highlightMatchedText returns for stored passages: chunkText
\* stores no passage without a visible character
Previews ==
    {s \in UNION {[1..n -> Chars] : n \in 1..MaxPreview} : \E i \in DOMAIN s : s[i] # " "}

InitDedup ==
    /\ NoIngestion
    /\ NoQuery
    /\ NoCallMade
    /\ keywordResults = [k \in DedupKeys |-> KeywordRow(<<0, 0, 400>>, {"text"})]
    /\ vectorResults = [k \in DedupKeys |-> NoRow]
    /\ resultMap = [k \in DedupKeys |-> NoResult]
    /\ searched = FALSE
    \* at most one passage of a document, its first, can be all header
    /\ \E p \in [DedupKeys -> Previews], h \in DedupKeys \cup {0} :
          chunkRows = [k \in DedupKeys |->
                          [resource_id |-> 1, preview |-> p[k], metaOnly |-> (k = h),
                           position |-> k - 1]]
    /\ resourceRows = [r \in {1} |-> NoResource]
    /\ documents = <<>>

NextDedup == SearchAllResourcesGrouped

SpecDedup == InitDedup /\ [][NextDedup]_vars

\* --------------------------------------------------------------- SpecGroup
\* One search over two documents: passages 1 and 2 belong to document 1,
\* passage 3 to document 2.  Init draws the two resources rows and what each
\* retriever returns for each passage; the handler merges, groups and sorts.
GroupKeys == {1, 2, 3}

GroupDocs == {1, 2}

DocOf == <<1, 1, 2>>

ResourceShapes ==
    {res \in [cols : {x \in SUBSET MetaFields : Cardinality(x) <= 1}, json : BOOLEAN] :
        res.json => res.cols \cap {"publishers", "description"} # {}}

\* what keywordSearch does with a passage: it does not return it (no clause of
\* its WHERE holds, or LIMIT cuts it), it returns it for its document's
\* metadata alone, or the passage text matches as well
TextCases == {"absent", "meta", "text"}

\* the final_score vectorSearch gives a passage it returns: 1.0 is an exact
\* phrase match, min(1.0, similarity + 0.5)
GroupScores == VectorScores \cup {1000}

KeywordResultOf(res, t) ==
    IF t = "absent" THEN NoRow
    ELSE KeywordRow(<<IF "title" \in res.cols THEN 100 ELSE 0,
                      IF "description" \in res.cols THEN 400 ELSE 0,
                      IF t = "text" THEN 700 ELSE 0>>,
                    KeywordView(res) \cup (IF t = "text" THEN {"text"} ELSE {}))

VectorResultOf(v) == IF v = 0 THEN NoRow ELSE VectorRow(v)

InitGroup ==
    /\ NoIngestion
    /\ NoQuery
    /\ NoCallMade
    /\ resourceRows \in [GroupDocs -> ResourceShapes]
    /\ chunkRows = [k \in GroupKeys |->
                       [resource_id |-> DocOf[k],
                        preview |-> IF k = 2 THEN <<"b">> ELSE <<"a">>,
                        metaOnly |-> FALSE,
                        position |-> IF k = 2 THEN 1 ELSE 0]]
    /\ \E t \in [GroupKeys -> TextCases] :
          /\ \A k \in GroupKeys :
                t[k] = "meta" =>
                    resourceRows[DocOf[k]].cols \cap {"title", "publishers", "description"} # {}
          /\ keywordResults = [k \in GroupKeys |-> KeywordResultOf(resourceRows[DocOf[k]], t[k])]
    /\ \E v \in [GroupKeys -> GroupScores \cup {0}] :
          vectorResults = [k \in GroupKeys |-> VectorResultOf(v[k])]
    /\ resultMap = [k \in GroupKeys |-> NoResult]
    /\ searched = FALSE
    /\ documents = <<>>

NextGroup == SearchAllResourcesGrouped

SpecGroup == InitGroup /\ [][NextGroup]_vars

\* ---------------------------------------------------------------- SpecDrop
\* One search whose rows are the two passages of one document.  The second
\* passage may show the same preview as the first or be all header, so that
\* the reducer drops its excerpt; each retriever returns either passage or
\* not, with its own score.  No document is being ingested.
DropKeys == {1, 2}

InitDrop ==
    /\ NoIngestion
    /\ NoQuery
    /\ NoCallMade
    /\ resourceRows \in [{1} -> ResourceShapes]
    /\ \E p \in {<<"a">>, <<"b">>}, h \in BOOLEAN :
          chunkRows = [k \in DropKeys |->
                          [resource_id |-> 1,
                           preview |-> IF k = 2 THEN p ELSE <<"a">>,
                           metaOnly |-> (k = 2 /\ h),
                           position |-> k - 1]]
    /\ \E t \in [DropKeys -> TextCases] :
          /\ \A k \in DropKeys :
                t[k] = "meta" =>
                    resourceRows[1].cols \cap {"title", "publishers", "description"} # {}
          /\ keywordResults = [k \in DropKeys |-> KeywordResultOf(resourceRows[1], t[k])]
    /\ \E v \in [DropKeys -> GroupScores \cup {0}] :
          vectorResults = [k \in DropKeys |-> VectorResultOf(v[k])]
    /\ resultMap = [k \in DropKeys |-> NoResult]
    /\ searched = FALSE
    /\ documents = <<>>

NextDrop == SearchAllResourcesGrouped

SpecDrop == InitDrop /\ [][NextDrop]_vars

\* --------------------------------------------------------------- SpecQuery
\* The three search operations, from the request to the response, one step
\* per collaborator call.  The datastore holds no document.
\* the query of a request body: absent, '', only white space, or text
Queries == {"missing", "empty", "blank", "text"}

\* !query
Falsy(q) == q \in {"missing", "empty"}

\* query.trim().length === 0, for a query that is a string
TrimsToEmpty(q) == q \in {"empty", "blank"}

\* the handler has answered req with code; no request is in flight
Answer(req, code, failed) ==
    /\ search' = NoRequest
    /\ response' = [op |-> req.op, query |-> req.query, code |-> code,
                    calls |-> req.calls, failed |-> failed]

\* vectorSearch up to its first await: embedQuery throws on a query that
\* trims to nothing before it calls the generator, and the handler's catch
\* answers 500; otherwise the generator call is made
StartVectorSearch(req) ==
    IF Falsy(req.query) \/ TrimsToEmpty(req.query)
    THEN Answer(req, 500, FALSE)
    ELSE /\ search' = [req EXCEPT !.pc = "embed", !.calls = @ + 1]
         /\ UNCHANGED response

Receive ==
    /\ search = NoRequest
    /\ nSearches < MaxSearches
    /\ nSearches' = nSearches + 1

QueryFrame ==
    /\ UNCHANGED <<keywordResults, vectorResults, resultMap, searched,
                   chunkRows, resourceRows, documents, callVars>>
    /\ UNCHANGED <<nReqs, nDocs, status, text, raw, chunks, reqs, runs,
                   answered, ended, completedN, overlapped>>

SearchResource(q, hasId) ==
    /\ Receive
    /\ LET req == [op |-> "searchResource", query |-> q, pc |-> "start", calls |-> 0]
       IN  IF Falsy(q) \/ ~hasId THEN Answer(req, 400, FALSE)
           ELSE StartVectorSearch(req)
    /\ QueryFrame

SearchAllResources(q) ==
    /\ Receive
    /\ LET req == [op |-> "searchAllResources", query |-> q, pc |-> "start", calls |-> 0]
       IN  IF Falsy(q) THEN Answer(req, 400, FALSE)
           ELSE StartVectorSearch(req)
    /\ QueryFrame

\* searchAllResourcesGrouped up to its first await
GroupedSearchStart(q) ==
    /\ Receive
    /\ LET req == [op |-> "searchAllResourcesGrouped", query |-> q, pc |-> "start",
                   calls |-> 0]
       IN  IF Falsy(q) \/ TrimsToEmpty(q) THEN Answer(req, 400, FALSE)
           ELSE /\ search' = [req EXCEPT !.pc = "keyword", !.calls = @ + 1]
                /\ UNCHANGED response
    /\ QueryFrame

\* keywordSearch's SELECT returns or throws
KeywordSearchReturns(ok) ==
    /\ search.pc = "keyword"
    /\ IF ok THEN StartVectorSearch(search) ELSE Answer(search, 500, TRUE)
    /\ UNCHANGED nSearches
    /\ QueryFrame

\* the generator call of embedQuery returns an embedding, returns no data,
\* or throws
EmbedQueryReturns(res) ==
    /\ search.pc = "embed"
    /\ IF res = "good"
       THEN /\ search' = [search EXCEPT !.pc = "vector", !.calls = @ + 1]
            /\ UNCHANGED response
       ELSE Answer(search, 500, TRUE)
    /\ UNCHANGED nSearches
    /\ QueryFrame

\* vectorSearch's SELECT returns or throws; both result lists are empty
VectorSearchReturns(ok) ==
    /\ search.pc = "vector"
    /\ IF ok THEN Answer(search, 200, FALSE) ELSE Answer(search, 500, TRUE)
    /\ UNCHANGED nSearches
    /\ QueryFrame

InitQuery ==
    /\ NoIngestion
    /\ NoSearch
    /\ NoCallMade

NextQuery ==
    \/ \E q \in Queries, hasId \in BOOLEAN : SearchResource(q, hasId)
    \/ \E q \in Queries : SearchAllResources(q)
    \/ \E q \in Queries : GroupedSearchStart(q)
    \/ \E ok \in BOOLEAN : KeywordSearchReturns(ok)
    \/ \E res \in {"good", "nodata", "fail"} : EmbedQueryReturns(res)
    \/ \E ok \in BOOLEAN : VectorSearchReturns(ok)

SpecQuery == InitQuery /\ [][NextQuery]_vars

\* ---------------------------------------------------------------- SpecTwo
\* Two documents, each with one background run started by a trigger
\* (processAllPending over both, or one processChunks each): the steps of the
\* two runs interleave in every order.
TwoDocs == {1, 2}

\* the runs of document d with a call outstanding
RunsOf(d) ==
    LET mine == {x \in BagToSet(runs) : x.doc = d}
    IN  [x \in mine |-> CopiesIn(x, runs)]

\* the rows of the chunks table with resource_id d
ChunksOf(d) ==
    LET mine == {x \in BagToSet(chunks) : x.doc = d}
    IN  [x \in mine |-> CopiesIn(x, chunks)]

InitTwo ==
    /\ nReqs = 0
    /\ nDocs = 2
    /\ status = [d \in TwoDocs |-> "processing"]
    /\ \E k1 \in DocKinds, k2 \in DocKinds :
          /\ text = [d \in TwoDocs |-> IF d = 1 THEN k1[1] ELSE k2[1]]
          /\ raw = [d \in TwoDocs |-> IF d = 1 THEN k1[2] ELSE k2[2]]
    /\ chunks = EmptyBag
    /\ reqs = EmptyBag
    /\ runs = SetToBag({NewRun(d, "async", "fetch") : d \in TwoDocs})
    /\ answered = NoAnswer
    /\ ended = NoEnd
    /\ completedN = [d \in TwoDocs |-> 0]
    /\ overlapped = [d \in TwoDocs |-> FALSE]
    /\ NoSearch
    /\ NoCallMade

NextTwo ==
    \/ \E run \in BagToSet(runs), n \in 1..LifeChunks : RunFetch(run, n)
    \/ \E run \in BagToSet(runs), ok \in BOOLEAN, n \in 1..LifeChunks : UpdateText(run, ok, n)
    \/ \E run \in BagToSet(runs), ok \in BOOLEAN : EmbedAll(run, ok)
    \/ \E run \in BagToSet(runs), i \in 1..LifeChunks, ok \in BOOLEAN : InsertDone(run, i, ok)
    \/ \E run \in BagToSet(runs) : MarkCompleted(run)
    \/ \E run \in BagToSet(runs) : MarkFailed(run)

SpecTwo == InitTwo /\ [][NextTwo]_vars

\* ---------------------------------------------------------------- SpecLive
\* The requests of Spec with every outcome of the run's datastore calls, and
\* the assumption that every outstanding call returns: a trigger's UPDATE, a
\* run's SELECT, UPDATE, generator calls and INSERTs.  New requests are under
\* no such assumption.
CallReturns ==
    \/ \E run \in BagToSet(runs), ok \in BOOLEAN, n \in 1..LifeChunks : UpdateText(run, ok, n)
    \/ \E rq \in BagToSet(reqs) : ProcessChunksUpdate(rq)
    \/ \E rq \in BagToSet(reqs) : ProcessAllStep(rq)
    \/ \E run \in BagToSet(runs), n \in 1..LifeChunks : RunFetch(run, n)
    \/ \E run \in BagToSet(runs) : RunFetchError(run)
    \/ \E run \in BagToSet(runs), ok \in BOOLEAN : EmbedAll(run, ok)
    \/ \E run \in BagToSet(runs), i \in 1..LifeChunks, ok \in BOOLEAN : InsertDone(run, i, ok)
    \/ \E run \in BagToSet(runs) : MarkCompleted(run)
    \/ \E run \in BagToSet(runs) : MarkCompletedError(run)
    \/ \E run \in BagToSet(runs) : MarkFailed(run)
    \/ \E run \in BagToSet(runs) : MarkFailedError(run)

NextLive ==
    \/ \E k \in DocKinds, n \in 1..LifeChunks : CreateResource(k[1], k[2], n)
    \/ \E d \in DocIds : ProcessChunksRead(d)
    \/ ProcessAllRead
    \/ CallReturns

SpecLive == Init /\ [][NextLive]_vars /\ WF_vars(CallReturns)

\* ---------------------------------------------------------------- chunkText
\* A text is a sequence of characters: "A" (a capital), "a" (a small letter),
\* ".", " " and "\n".  Of the five header patterns of extractSectionHeaders
\* only the first, lines in capitals, can match such a text: the others need a
\* digit, ":", "#" or "*".

\* s.trim()
Trim(s) == TrimEnd(TrimStart(s))

\* s.trim().length === 0
IsBlank(s) == \A i \in DOMAIN s : s[i] \in WhiteSpace

\* the non-empty strings of s.split(sep), where the matches of sep cover
\* exactly the indices in `at`
RECURSIVE SplitAt(_, _, _, _)
SplitAt(s, at, i, cur) ==
    IF i > Len(s) THEN (IF cur = <<>> THEN <<>> ELSE <<cur>>)
    ELSE IF i \in at
    THEN (IF cur = <<>> THEN <<>> ELSE <<cur>>) \o SplitAt(s, at, i + 1, <<>>)
    ELSE SplitAt(s, at, i + 1, Append(cur, s[i]))

\* .filter(x => x.trim().length > 0)
NonBlank(strings) == SelectSeq(strings, LAMBDA x : ~IsBlank(x))

\* s.split(' '): every string between two spaces, the empty ones included
RECURSIVE SplitOnSpace(_, _, _)
SplitOnSpace(s, i, cur) ==
    IF i > Len(s) THEN <<cur>>
    ELSE IF s[i] = " " THEN <<cur>> \o SplitOnSpace(s, i + 1, <<>>)
    ELSE SplitOnSpace(s, i + 1, Append(cur, s[i]))

\* strings.join(sep)
RECURSIVE Join(_, _)
Join(strings, sep) ==
    IF strings = <<>> THEN <<>>
    ELSE IF Len(strings) = 1 THEN strings[1]
    ELSE strings[1] \o sep \o Join(Tail(strings), sep)

\* /^[A-Z][A-Z\s&\-]+$/gm tried at p: the end of the match, 0 when there is
\* none.  The class is taken greedily and given back up to the last end of
\* line.
CapsMatchEnd(s, p) ==
    LET ends == {q \in (p + 1)..Len(s) :
                    /\ \A m \in (p + 1)..q : s[m] \in {"A", " ", "\n"}
                    /\ (q = Len(s) \/ s[q + 1] = "\n")}
    IN  IF s[p] = "A" /\ (p = 1 \/ s[p - 1] = "\n") /\ ends # {}
        THEN CHOOSE q \in ends : \A r \in ends : r <= q
        ELSE 0

\* text.match(pattern) with the g flag: the matches from left to right, each
\* search starting where the last match ended
RECURSIVE CapsMatches(_, _)
CapsMatches(s, p) ==
    IF p > Len(s) THEN {}
    ELSE LET q == CapsMatchEnd(s, p)
         IN  IF q = 0 THEN CapsMatches(s, p + 1)
             ELSE {SubSeq(s, p, q)} \cup CapsMatches(s, q + 1)

extractSectionHeaders(txt) ==
    {h \in {Trim(x) : x \in CapsMatches(txt, 1)} : Len(h) > 2 /\ Len(h) < 100}

\* the indices /\n\s*\n+/ matches: from the first to the last newline of a
\* stretch of white space that holds two newlines
BlankLines(s) ==
    {i \in DOMAIN s :
        \E j \in 1..i, k \in i..Len(s) :
            /\ j < k /\ s[j] = "\n" /\ s[k] = "\n"
            /\ \A m \in j..k : s[m] \in WhiteSpace}

\* the indices /(?<=[.!?])\s+/ matches: the white space that follows a stop
SpaceAfterStop(s) ==
    {i \in DOMAIN s :
        /\ s[i] \in WhiteSpace
        /\ \E j \in 1..(i - 1) : s[j] = "." /\ \A m \in (j + 1)..i : s[m] \in WhiteSpace}

IndicesOf(s, c) == {i \in DOMAIN s : s[i] = c}

\* Math.ceil(n / d)
Ceil(n, d) == (n + d - 1) \div d

NewChunk(txt, position, section) ==
    [text |-> Trim(txt), position |-> position, section |-> section,
     tokens |-> Ceil(Len(txt), 4)]

\* sentences.slice(-2).join('. ').trim() of the passage just pushed
OverlapText(currentChunk) ==
    LET sentences == NonBlank(SplitAt(currentChunk, IndicesOf(currentChunk, "."), 1, <<>>))
        n == Len(sentences)
    IN  Trim(Join(SubSeq(sentences, IF n > 2 THEN n - 1 ELSE 1, n), <<".", " ">>))

\* one turn of `for (const paragraph of paragraphs)`; st holds chunks,
\* currentChunk and position
SplitParagraph(st, paragraph, maxSize, overlap, sectionName) ==
    IF Len(st.currentChunk) + Len(paragraph) + 1 <= maxSize
    THEN [st EXCEPT !.currentChunk =
             (IF @ # <<>> THEN @ \o <<"\n">> ELSE <<>>) \o paragraph]
    ELSE IF st.currentChunk # <<>>
    THEN [chunks |-> Append(st.chunks, NewChunk(st.currentChunk, st.position, sectionName)),
          position |-> st.position + 1,
          currentChunk |->
              LET overlapText == OverlapText(st.currentChunk)
              IN  IF Len(overlapText) <= overlap
                  THEN overlapText \o <<"\n">> \o paragraph
                  ELSE paragraph]
    ELSE [st EXCEPT !.currentChunk = paragraph]

RECURSIVE SplitParagraphs(_, _, _, _, _)
SplitParagraphs(st, paragraphs, maxSize, overlap, sectionName) ==
    IF paragraphs = <<>> THEN st
    ELSE SplitParagraphs(SplitParagraph(st, Head(paragraphs), maxSize, overlap, sectionName),
                         Tail(paragraphs), maxSize, overlap, sectionName)

\* if (currentChunk.trim()) chunks.push(...)
LastChunk(st, sectionName) ==
    IF IsBlank(st.currentChunk) THEN st.chunks
    ELSE Append(st.chunks, NewChunk(st.currentChunk, st.position, sectionName))

splitLargeSection(txt, maxSize, overlap, sectionName, startPosition) ==
    LET paragraphs == NonBlank(SplitAt(txt, IndicesOf(txt, "\n"), 1, <<>>))
    IN  LastChunk(SplitParagraphs([chunks |-> <<>>, currentChunk |-> <<>>,
                                   position |-> startPosition],
                                  paragraphs, maxSize, overlap, sectionName),
                  sectionName)

\* words.slice(-Math.ceil(overlap / 6)): slice(-0) is slice(0), all the words
OverlapWords(currentChunk, overlap) ==
    LET words == SplitOnSpace(currentChunk, 1, <<>>)
        k == Ceil(overlap, 6)
    IN  IF k = 0 \/ k >= Len(words) THEN words
        ELSE SubSeq(words, Len(words) - k + 1, Len(words))

\* one turn of `for (const sentence of sentences)`; passages of the fallback
\* carry no section
FallbackSentence(st, sentence, maxSize, overlap) ==
    IF Len(st.currentChunk) + Len(sentence) <= maxSize
    THEN [st EXCEPT !.currentChunk =
             (IF @ # <<>> THEN @ \o <<" ">> ELSE <<>>) \o sentence]
    ELSE IF st.currentChunk # <<>>
    THEN [chunks |-> Append(st.chunks, NewChunk(st.currentChunk, st.position, <<>>)),
          position |-> st.position + 1,
          currentChunk |->
              Join(OverlapWords(st.currentChunk, overlap), <<" ">>) \o <<" ">> \o sentence]
    ELSE [st EXCEPT !.currentChunk = sentence]

RECURSIVE FallbackSentences(_, _, _, _)
FallbackSentences(st, sentences, maxSize, overlap) ==
    IF sentences = <<>> THEN st
    ELSE FallbackSentences(FallbackSentence(st, Head(sentences), maxSize, overlap),
                           Tail(sentences), maxSize, overlap)

fallbackChunking(txt, maxSize, overlap) ==
    LET sentences == NonBlank(SplitAt(txt, SpaceAfterStop(txt), 1, <<>>))
    IN  LastChunk(FallbackSentences([chunks |-> <<>>, currentChunk |-> <<>>,
                                     position |-> 0],
                                    sentences, maxSize, overlap),
                  <<>>)

\* text.split(/\n\s*\n+/).filter(...), each trimmed as the loop takes it
Sections(txt) ==
    LET sections == NonBlank(SplitAt(txt, BlankLines(txt), 1, <<>>))
    IN  [i \in 1..Len(sections) |-> Trim(sections[i])]

\* headers.some(h => section.includes(h))
IsHeader(section, headers) == \E h \in headers : Includes(section, h)

\* variant of AfterSubChunks that counts a split section as one passage, used
\* to show that the contiguity of the positions depends on the count
AfterSubChunksByOne(position, subChunks) == position + 1

\* position += subChunks.length
AfterSubChunks(position, subChunks) == position + Len(subChunks)

\* one turn of `for (let i = 0; i < sections.length; i++)`; st holds chunks,
\* currentSection and position
ChunkSection(st, section, headers, maxSize, overlap) ==
    IF IsHeader(section, headers) THEN [st EXCEPT !.currentSection = section]
    ELSE IF Len(section) <= maxSize
    THEN [st EXCEPT !.chunks = Append(@, NewChunk(section, st.position, st.currentSection)),
                    !.position = @ + 1]
    ELSE LET subChunks == splitLargeSection(section, maxSize, overlap,
                                            st.currentSection, st.position)
         IN  [st EXCEPT !.chunks = @ \o subChunks,
                         !.position = AfterSubChunks(@, subChunks)]

RECURSIVE ChunkSections(_, _, _, _, _)
ChunkSections(st, sections, headers, maxSize, overlap) ==
    IF sections = <<>> THEN st
    ELSE ChunkSections(ChunkSection(st, Head(sections), headers, maxSize, overlap),
                       Tail(sections), headers, maxSize, overlap)

chunkText(txt, maxSize, overlap) ==
    IF IsBlank(txt) THEN <<>>
    ELSE LET chunked == ChunkSections([chunks |-> <<>>, currentSection |-> <<>>,
                                       position |-> 0],
                                      Sections(txt), extractSectionHeaders(txt),
                                      maxSize, overlap).chunks
         IN  IF chunked = <<>> THEN fallbackChunking(txt, maxSize, overlap)
             ELSE chunked

\* ---------------------------------------------------------------- SpecChunk
\* chunkText alone: a text put together from at most MaxPieces pieces, with a
\* maxSize of a few characters, without and with room for an overlap.
Pieces == {<<"A", "A", "A">>, <<"a">>, <<".">>, <<" ">>, <<"\n">>, <<"\n", "\n">>}

RECURSIVE Texts(_)
Texts(n) ==
    IF n = 0 THEN {<<>>}
    ELSE LET shorter == Texts(n - 1)
         IN  shorter \cup {t \o p : t \in shorter, p \in Pieces}

\* <<maxSize, overlap>>
ChunkSizes == {<<2, 0>>, <<3, 1>>}

InitChunk ==
    /\ NoIngestion
    /\ NoSearch
    /\ \E t \in Texts(MaxPieces), z \in ChunkSizes :
          args = [fn |-> "chunkText", text |-> t, maxSize |-> z[1], overlap |-> z[2]]
    /\ returned = <<>>

CallFrame ==
    /\ UNCHANGED <<keywordResults, vectorResults, resultMap, searched,
                   chunkRows, resourceRows, documents, queryVars>>
    /\ UNCHANGED <<nReqs, nDocs, status, text, raw, chunks, reqs, runs,
                   answered, ended, completedN, overlapped>>

ChunkText ==
    /\ args.fn = "chunkText"
    /\ returned' = chunkText(args.text, args.maxSize, args.overlap)
    /\ args' = [args EXCEPT !.fn = "chunkText returned"]
    /\ CallFrame

NextChunk == ChunkText

SpecChunk == InitChunk /\ [][NextChunk]_vars

\* -------------------------------------------------------------- SpecKeyword
\* The row mapper of keywordSearch alone, on one row of its SELECT: the three
\* ranks of the row and whether the publishers contain the query.  The WHERE
\* clause returns a row only when one of the four holds.
Ranks == {0, 10, 100, 400}

InitKeyword ==
    /\ NoIngestion
    /\ NoSearch
    /\ \E r \in Ranks \X Ranks \X Ranks, p \in BOOLEAN :
          /\ r # <<0, 0, 0>> \/ p
          /\ args = [fn |-> "keywordSearch", ranks |-> r, publishers |-> p]
    /\ returned = <<>>

\* results.rows.map(...)
KeywordSearchRows ==
    /\ args.fn = "keywordSearch"
    /\ returned' = <<KeywordRow(args.ranks,
                                IF args.publishers THEN {"publishers"} ELSE {})>>
    /\ args' = [args EXCEPT !.fn = "keywordSearch returned"]
    /\ CallFrame

NextKeyword == KeywordSearchRows

SpecKeyword == InitKeyword /\ [][NextKeyword]_vars

\* ================================================================ properties
\* rows of document d stored at position p
RowsAt(d, p) == Total(chunks, {x \in BagToSet(chunks) : x.doc = d /\ x.pos = p})

\* the status changes the lifecycle diagram allows
AlongArrows(from, to) ==
    \/ from \in {"unset", "pending", "failed"} /\ to = "processing"
    \/ from = "processing" /\ to \in {"completed", "failed"}

\* C1 (as stated): over every interleaving of processChunks, processAllPending
\* and the background runs, the processingStatus of an existing document
\* changes only along unset/pending/failed -> processing, processing ->
\* completed, processing -> failed; a completed document is never set back to
\* processing.
C1_StatusOnlyAlongArrows ==
    [][\A d \in DocIds :
         (status[d] # "absent" /\ status'[d] # status[d]) => AlongArrows(status[d], status'[d])]_vars

\* C1 (amended): a status is set to "processing" only by a trigger whose own
\* SELECT found the document unset, pending or failed, and to "completed" or
\* "failed" only by a background run; and as long as no two status writers of
\* the document (a trigger between its SELECT and its UPDATE, a background run
\* that has not written its outcome) were ever in flight together, every
\* change follows the arrows, so a completed document is not set back to
\* processing.
C1_StatusAlongArrowsUnlessOverlapped ==
    [][\A d \in DocIds :
         (status[d] # "absent" /\ status'[d] # status[d]) =>
            /\ status'[d] = "processing" =>
                  \E rq \in BagToSet(reqs) : d \in rq.todo /\ PendingFilter(rq.seen[d])
            /\ status'[d] # "processing" =>
                  /\ status'[d] \in {"completed", "failed"}
                  /\ \E run \in BagToSet(runs) :
                        run.doc = d /\ run.kind = "async"
                        /\ run.pc \in {"markCompleted", "markFailed"}
            /\ ~overlapped[d] => AlongArrows(status[d], status'[d])]_vars

\* a background run has just taken its document from processing to failed,
\* after a trigger took it there from unset, and nothing ever overlapped
C1_Witness ==
    /\ ended.kind = "async" /\ ended.out = "error" /\ ended.doc = 1
    /\ status[1] = "failed"
    /\ ~overlapped[1]

\* C2: processChunks on a document whose processingStatus is processing
\* (completed) answers with status processing (completed), starts no background
\* run and leaves no UPDATE to come, and leaves the document's status, stored
\* text and stored passages unchanged.
C2_ProcessChunksNoOp ==
    [][\A d \in DocIds :
         (ProcessChunksRead(d) /\ d <= nDocs /\ status[d] \in {"processing", "completed"}) =>
            /\ answered'.op = "processChunks" /\ answered'.doc = d
            /\ answered'.resp = status[d]
            /\ runs' = runs /\ reqs' = reqs
            /\ status' = status /\ text' = text /\ chunks' = chunks]_vars

\* processChunks has answered "Already processed" for a completed document
C2_Witness ==
    /\ answered.op = "processChunks" /\ answered.doc = 1
    /\ answered.seen = "completed" /\ answered.resp = "completed"
    /\ status[1] = "completed"
    /\ chunks # EmptyBag

\* C4: when an ingestion run of a document ends in an error, the document's
\* processingStatus is "failed" once the run has ended, for the runs the
\* triggers start and for the run createResource starts.
C4_ErrorLeavesFailed == ended.out = "error" => ended.left = "failed"

\* C5: whenever a document's processingStatus is completed, its stored passages
\* are exactly those of the run that set it to completed: one row at each of
\* that run's positions and no other row.
C5_CompletedHasOnlyLastRunRows ==
    \A d \in DocIds :
        status[d] = "completed" =>
            \A p \in (0..(completedN[d] - 1)) \cup {x.pos : x \in BagToSet(chunks)} :
                RowsAt(d, p) = IF p < completedN[d] THEN 1 ELSE 0

\* C6: no two stored passages of the same document have the same position.
C6_PositionsUnique ==
    \A x \in BagToSet(chunks) : RowsAt(x.doc, x.pos) <= 1

\* ------------------------------------------------- properties of one run
\* the run SpecRun follows; NewRun(0, ..) once it has ended
TheRun ==
    IF runs = EmptyBag THEN NewRun(0, "none", "none")
    ELSE CHOOSE run \in BagToSet(runs) : TRUE

AllEmbedded(run) == run.n > 0 /\ \A i \in 1..run.n : run.emb[i] = "ok" /\ run.vec[i] # "none"

\* C3: within one run no passage row is inserted (and no INSERT is issued)
\* before the embedding of every passage has been obtained; if a passage's
\* embedding fails on all 3 attempts the run inserts no row.
C3_NoInsertBeforeAllEmbedded ==
    /\ [](\A run \in BagToSet(runs) :
            /\ (\E i \in 1..run.n : run.ins[i] # "none") => AllEmbedded(run)
            /\ (\E i \in 1..run.n : run.emb[i] = "err") =>
                  /\ run.tries = [i \in 1..run.n |-> IF run.emb[i] = "err" THEN 3 ELSE run.tries[i]]
                  /\ chunks = EmptyBag)
    /\ [][chunks' # chunks => AllEmbedded(TheRun)]_vars

\* the first batch was embedded, a passage of the second batch failed 3 times,
\* and nothing is stored
C3_Witness ==
    /\ TheRun.pc = "markFailed"
    /\ TheRun.n = 4
    /\ \A i \in 1..3 : TheRun.emb[i] = "ok"
    /\ TheRun.emb[4] = "err"
    /\ chunks = EmptyBag

\* C7: the N passages are embedded in position order in ceil(N/3) consecutive
\* batches of at most 3: at most 3 generator calls of the run are outstanding,
\* and a call for a passage of batch k+1 is made only after every passage of
\* batch k has returned a vector.
C7_BatchesOfThree ==
    \A run \in BagToSet(runs) :
        run.n > 0 =>
            /\ Cardinality({i \in 1..run.n : run.emb[i] \in {"req", "back"}}) <= 3
            /\ (run.b - 1) % 3 = 0 /\ run.b <= run.n
            /\ \A i \in 1..run.n :
                  /\ i < run.b => run.emb[i] = "ok"
                  /\ i >= run.b + 3 <=> run.emb[i] = "wait"
            /\ run.pc \in {"insert", "markCompleted"} =>
                  (run.b - 1) \div 3 + 1 = (run.n + 2) \div 3

\* the single call of the second batch is outstanding after the three of the
\* first batch have returned
C7_Witness ==
    /\ TheRun.n = 4 /\ TheRun.b = 4 /\ TheRun.pc = "embed"
    /\ TheRun.emb = <<"ok", "ok", "ok", "req">>

\* C8: the generator is called at most 3 times per passage, a further call is
\* made only after the previous call for that passage failed, a success on any
\* call (the third included) puts the returned vector into the output, and 3
\* failures fail the run without a 4th call.
C8_AtMostThreeCalls ==
    /\ [](\A run \in BagToSet(runs) : \A i \in 1..run.n :
            /\ run.tries[i] <= 3
            /\ run.emb[i] = "back" => run.tries[i] < 3
            /\ run.emb[i] = "err" =>
                  run.tries[i] = 3 /\ run.pc \notin {"embed", "pause", "insert", "markCompleted"})
    /\ [][\A i \in 1..TheRun.n :
            (TheRun'.n = TheRun.n) =>
               /\ (TheRun.tries[i] >= 1 /\ TheRun'.tries[i] > TheRun.tries[i]) =>
                     /\ TheRun.emb[i] = "back" /\ TheRun'.emb[i] = "req"
                     /\ TheRun'.tries[i] = TheRun.tries[i] + 1
               /\ TheRun'.emb[i] = "back" => TheRun.emb[i] \in {"req", "back"}
               /\ (TheRun.emb[i] = "req" /\ TheRun'.emb[i] = "ok") =>
                     TheRun'.vec[i] \in {"good", "bad"}
               /\ TheRun.emb[i] = "ok" =>
                     TheRun'.emb[i] = "ok" /\ TheRun'.vec[i] = TheRun.vec[i]]_vars

\* a passage got its vector on the third call while a call of the same batch
\* is still outstanding
C8_Witness ==
    \E i \in 1..TheRun.n :
        /\ TheRun.tries[i] = 3 /\ TheRun.emb[i] = "ok" /\ TheRun.vec[i] = "good"
        /\ TheRun.pc = "embed"

\* C9: a malformed vector (wrong length, or a non-finite entry) is never stored
\* as a passage embedding: the run that receives one fails and the document
\* ends failed.
C9_MalformedVectorFailsRun ==
    /\ \A x \in BagToSet(chunks) : x.vec # "bad"
    /\ \A run \in BagToSet(runs) : \A i \in 1..run.n :
          run.vec[i] = "bad" =>
             \/ run.pc = "markFailed"
             \/ run.pc = "done" /\ status[run.doc] = "failed"

\* ------------------------------------------------ properties of the merge
\* the keyword score the handler gives a row: by the best field containing the
\* query, 0 when none does
AdjustedScore(row) ==
    IF "title" \in row.where THEN 950
    ELSE IF "publishers" \in row.where THEN 850
    ELSE IF "description" \in row.where THEN 750
    ELSE IF "tags" \in row.where THEN 700
    ELSE IF "text" \in row.where
    THEN (IF row.text_rank = 0 THEN 500 ELSE Min(650, row.text_rank))
    ELSE 0

\* C10 (as stated): the merged set has exactly one row per key; a key both
\* retrievers returned has provenance hybrid and score keyword_score * 0.6 +
\* vector_score * 0.4 over the two returned scores; a key only one retriever
\* returned keeps that retriever's score and provenance.
C10_MergeByReturnedScores ==
    searched =>
        \A k \in Keys :
            LET kw == keywordResults[k]
                vec == vectorResults[k]
            IN  /\ (kw.src = "none" /\ vec.src = "none") => resultMap[k] = NoResult
                /\ (kw.src = "keyword" /\ vec.src = "vector") =>
                      resultMap[k] = [match_type |-> "hybrid",
                                      final_score |-> (kw.final_score * 6 + vec.final_score * 4) \div 10]
                /\ (kw.src = "keyword" /\ vec.src = "none") =>
                      resultMap[k] = [match_type |-> "keyword", final_score |-> kw.final_score]
                /\ (kw.src = "none" /\ vec.src = "vector") =>
                      resultMap[k] = [match_type |-> "vector", final_score |-> vec.final_score]

\* C10 (amended): the merged set has exactly one row per key; the keyword side
\* of a row is scored anew by the best field that contains the query (0.95
\* title, 0.85 publishers, 0.75 description, 0.70 tags, min(0.65, text_rank or
\* 0.5) text, 0 when none), not by the score keywordSearch returned.  A key both
\* retrievers returned has provenance hybrid and score min(1.0, adjusted * 0.6
\* + vector_score * 0.4); a keyword-only key has provenance keyword and the
\* adjusted score; a vector-only key keeps vectorSearch's score and provenance
\* vector.
C10_MergeByAdjustedScore ==
    searched =>
        \A k \in Keys :
            LET kw == keywordResults[k]
                vec == vectorResults[k]
            IN  /\ (kw.src = "none" /\ vec.src = "none") => resultMap[k] = NoResult
                /\ (kw.src = "keyword" /\ vec.src = "vector") =>
                      resultMap[k] =
                          [match_type |-> "hybrid",
                           final_score |-> Min(1000, (AdjustedScore(kw) * 6 + vec.final_score * 4) \div 10)]
                /\ (kw.src = "keyword" /\ vec.src = "none") =>
                      resultMap[k] = [match_type |-> "keyword", final_score |-> AdjustedScore(kw)]
                /\ (kw.src = "none" /\ vec.src = "vector") =>
                      resultMap[k] = [match_type |-> "vector", final_score |-> vec.final_score]

\* keywordSearch returned 0.8 and vectorSearch 0.6 for key 1, and the merged
\* score is 0.81; key 2 came from the keyword retriever alone
C10_Witness ==
    /\ searched
    /\ keywordResults[1].final_score = 800 /\ vectorResults[1].final_score = 600
    /\ resultMap[1] = [match_type |-> "hybrid", final_score |-> 810]
    /\ keywordResults[2].src = "keyword" /\ vectorResults[2].src = "none"
    /\ resultMap[2].match_type = "keyword"

\* ------------------------------------------------------------------- C11
\* the groups of the response
Groups == {documents[i] : i \in 1..Len(documents)}

RowsOf(r) ==
    {k \in DOMAIN resultMap : resultMap[k].match_type # "none" /\ chunkRows[k].resource_id = r}

MaxOf(S) == CHOOSE x \in S : \A y \in S : y <= x

C13_TitleAboveBodyOnly ==
    \A g \in Groups, h \in Groups :
        ("title" \in resourceRows[g.resource_id].cols
         /\ resourceRows[h.resource_id].cols = {})
            => g.max_score > h.max_score

\* C14: a document whose publishers contain the query has a group score of at
\* least 0.85, whichever retriever returned its rows.
C14_PublisherAtLeast085 ==
    \A g \in Groups :
        "publishers" \in resourceRows[g.resource_id].cols => g.max_score >= 850

\* C15: the groups are returned in non-increasing max_score order.
C15_NonIncreasingMaxScore ==
    \A i \in 1..Len(documents), j \in 1..Len(documents) :
        i < j => documents[i].max_score >= documents[j].max_score

\* ------------------------------------------------------------------- C16
\* C16: every search operation answers a missing, empty or whitespace-only
\* query with 400 and without a collaborator call, and answers 500 only when
\* a collaborator call failed.
C16_BadQueryIs400WithoutCalls ==
    /\ response.query \in {"missing", "empty", "blank"} =>
          response.code = 400 /\ response.calls = 0
    /\ response.code = 500 => response.failed

\* ------------------------------------------------------------- C17, C18
\* stored passages of document d
StoredOf(d) == Total(chunks, {x \in BagToSet(chunks) : x.doc = d})

ProcessChunksAnswersFirst ==
    \A rq \in BagToSet(reqs) :
        (rq.op = "processChunks" /\ reqs' = Take(reqs, rq)) =>
            \E run \in BagToSet(runs') :
                /\ CopiesIn(run, runs') > CopiesIn(run, runs)
                /\ run.doc \in rq.todo
                /\ run.kind = "async" /\ run.pc = "fetch"
                /\ run.n = 0 /\ run.emb = <<>> /\ run.ins = <<>>

C18_NoContentEndsFailed ==
    \A d \in DocIds :
        (raw[d] = "bad" /\ text[d] = "empty") =>
            /\ ended.doc = d => ended.left = "failed"
            /\ StoredOf(d) = 0

\* ------------------------------------------------------------------- C19
\* what the datastore holds of document d
RowOf(d) == <<status[d], text[d], raw[d], completedN[d]>>

\* a step that is not a step of a run of document d leaves the row and the
\* passages of d as they are
OnlyOwnDocument ==
    \A d \in TwoDocs :
        RunsOf(d)' = RunsOf(d) => RowOf(d)' = RowOf(d) /\ ChunksOf(d)' = ChunksOf(d)

C20_ProcessingEndsCompletedOrFailed ==
    \A d \in DocIds : (status[d] = "processing") ~> (status[d] \in {"completed", "failed"})

\* ------------------------------------------------------------------- C21
\* C21: the passages chunkText returns carry the positions 0, 1, ..., n-1 in
\* the order of the output, also when splitLargeSection splits a section and
\* when fallbackChunking is used.
C21_PositionsContiguous ==
    args.fn = "chunkText returned" =>
        \A i \in 1..Len(returned) : returned[i].position = i - 1

\* a section longer than maxSize has been split and a section follows it
C21_Witness ==
    /\ args.fn = "chunkText returned"
    /\ Len(Sections(args.text)) = 2
    /\ Len(Sections(args.text)[1]) > args.maxSize
    /\ Len(returned) = 3

\* ------------------------------------------------------------------- C22
Range(f) == {f[i] : i \in DOMAIN f}

\* text.split(/\n+/).filter(...)
Paragraphs(txt) == NonBlank(SplitAt(txt, IndicesOf(txt, "\n"), 1, <<>>))

\* the single paragraphs of the text and the single sentences the fallback
\* sees in it, trimmed as a passage is
SingleUnits(txt) ==
    {Trim(x) : x \in Range(Paragraphs(txt))
                   \cup Range(NonBlank(SplitAt(txt, SpaceAfterStop(txt), 1, <<>>)))}

\* C22: every passage chunkText returns is at most maxSize characters long,
\* unless it is one single paragraph (in the fallback one single sentence);
\* that holds of a passage that begins with carried-over overlap text too.
C22_PassageWithinMaxSize ==
    args.fn = "chunkText returned" =>
        \A i \in 1..Len(returned) :
            \/ Len(returned[i].text) <= args.maxSize
            \/ returned[i].text \in SingleUnits(args.text)

\* ------------------------------------------------------------------- C23
\* occurrences of the character c in the strings of a sequence
RECURSIVE Occurrences(_, _)
Occurrences(strings, c) ==
    IF strings = <<>> THEN 0
    ELSE Cardinality(IndicesOf(Head(strings), c)) + Occurrences(Tail(strings), c)

\* the sections of the text that are not themselves a detected header
BodySections(txt) ==
    SelectSeq(Sections(txt), LAMBDA x : x \notin extractSectionHeaders(txt))

\* C23: chunkText loses no body content.  Every paragraph of every section
\* that is not itself a detected header stands in the text of some returned
\* passage, and the passages together hold every visible character of those
\* sections at least as often as the sections do.
C23_NoBodyContentLost ==
    args.fn = "chunkText returned" =>
        /\ \A section \in Range(BodySections(args.text)) :
              \A paragraph \in Range(Paragraphs(section)) :
                 \E i \in 1..Len(returned) : Includes(returned[i].text, Trim(paragraph))
        /\ \A c \in {"A", "a", "."} :
              Occurrences(BodySections(args.text), c)
                 <= Occurrences([i \in 1..Len(returned) |-> returned[i].text], c)

\* ------------------------------------------------------------------- C24
\* the score the row mapper gives for a match in one field alone
FieldScores(r, publishers) ==
    (IF r[1] > 0 THEN {Max(500, Min(950, 700 + r[1]))} ELSE {})
    \cup (IF r[2] > 0 THEN {Max(500, Min(750, 500 + r[2]))} ELSE {})
    \cup (IF r[3] > 0 THEN {Min(650, 300 + r[3])} ELSE {})
    \cup (IF publishers THEN {850} ELSE {})

\* C24: the final_score of a row keywordSearch returns is the greatest of the
\* scores of all the fields that matched (title, publishers, description,
\* passage text), not the score of the first field that matched.
C24_ScoreIsMaxOverMatchedFields ==
    args.fn = "keywordSearch returned" =>
        returned[1].final_score = MaxOf(FieldScores(args.ranks, args.publishers))

\* ------------------------------------------------------------------- C25
\* the merged rows in the order the reducer folds them
FoldedRows ==
    AllResults({k \in DOMAIN resultMap : resultMap[k].match_type # "none"},
               resultMap, keywordResults, vectorResults, chunkRows, resourceRows)

\* the first row folded for document r
FirstRowOf(r) ==
    LET rows == FoldedRows
    IN  rows[CHOOSE i \in 1..Len(rows) :
                /\ rows[i].resource_id = r
                /\ \A j \in 1..(i - 1) : rows[j].resource_id # r]

\* C25: every group of a grouped result holds at least one excerpt, the
\* excerpt of the first row folded for its document is in it even when that
\* excerpt is metadata-only, and chunk_count is the number of excerpts held.
C25_GroupKeepsFirstExcerpt ==
    \A g \in Groups :
        /\ Len(g.chunks) >= 1
        /\ g.chunk_count = Len(g.chunks)
        /\ \E i \in 1..Len(g.chunks) : g.chunks[i].id = FirstRowOf(g.resource_id).chunk_id

\* the first row folded is metadata-only and its excerpt is in the group,
\* next to another excerpt
C25_Witness ==
    /\ searched
    /\ \E g \in Groups :
          /\ FirstRowOf(g.resource_id).metaOnly
          /\ \E i \in 1..Len(g.chunks) : g.chunks[i].id = FirstRowOf(g.resource_id).chunk_id
          /\ g.chunk_count = 2

\* ------------------------------------------------------------------- C26
\* C26: a group's max_score is the largest of its metadata score M and the
\* combined scores of the excerpts the group holds; a merged row whose excerpt
\* was dropped, as a near-duplicate or as metadata-only, adds nothing to it.
C26_MaxScoreFromKeptExcerpts ==
    \A g \in Groups :
        LET M == g.metadata_match_score
        IN  g.max_score =
                MaxOf({M} \cup {CombinedScore(M, g.chunks[i].score) : i \in 1..Len(g.chunks)})

\* ------------------------------------------------------------------- C27
\* the orders n rows can be folded in
Orders(n) == {p \in [1..n -> 1..n] : \A i \in 1..n, j \in 1..n : p[i] = p[j] => i = j}

\* C27: folding the merged rows in any other order gives every document's
\* group the max_score the response has.
C27_MaxScoreSameInEveryOrder ==
    searched =>
        LET rows == FoldedRows
        IN  \A p \in Orders(Len(rows)) :
                LET acc == GroupedResults([r \in DOMAIN resourceRows |-> NoGroup],
                                          [i \in 1..Len(rows) |-> rows[p[i]]])
                IN  \A g \in Groups : acc[g.resource_id].max_score = g.max_score

\* ------------------------------------------------------------------- C28
\* the run has failed because a passage used up its retryCount calls, and its
\* document has been marked failed
FailedByRetries(run) ==
    /\ run.pc = "done"
    /\ status[run.doc] = "failed"
    /\ \E i \in DOMAIN run.emb : run.emb[i] = "err"

\* C28: once a run has failed because one passage exhausted its 3 attempts and
\* the document is marked failed, no step issues another generator call of
\* that run: no passage of the failing batch is retried and no later batch
\* starts.
C28_NoEmbeddingRequestAfterFailure ==
    [][\A run \in BagToSet(runs) :
          FailedByRetries(run) =>
              \A after \in BagToSet(runs') :
                  after.doc = run.doc =>
                      \A i \in DOMAIN after.emb :
                          after.emb[i] = "req" => run.emb[i] = "req"]_vars

\* ------------------------------------------------------------------- C29
\* C29: every stored passage belongs to an existing document: once
\* deleteResource has removed a document, no passage of it is stored, also
\* when DELETE FROM chunks failed or a run for the document was in progress.
C29_NoPassageWithoutDocument ==
    \A x \in BagToSet(chunks) : status[x.doc] # "absent"

\* ------------------------------------------------------------------- C30
\* the insert batch passage i belongs to, counted from 0
InsertBatchOf(i) == (i - 1) \div insertBatchSize

\* C30: at most insertBatchSize passage inserts of a run are outstanding at
\* any moment, and an insert of a later batch is outstanding only when every
\* insert of the batches before it has completed.
C30_InsertsInBatchesOfTen ==
    \A run \in BagToSet(runs) :
        /\ Cardinality({i \in DOMAIN run.ins : run.ins[i] = "req"}) <= insertBatchSize
        /\ \A i \in DOMAIN run.ins, j \in DOMAIN run.ins :
              (run.ins[i] = "req" /\ InsertBatchOf(j) < InsertBatchOf(i))
                  => run.ins[j] = "ok"

====
